---- MODULE Spec2Model ----
(***************************************************************************)
(* A model of trename's rename engine: name sanitisation, the conflict     *)
(* validator, the renamer and the SQLite undo ledger.                      *)
(*                                                                         *)
(* A character is a one-element token (a string), a name is a sequence of  *)
(* characters, a path is the sequence of its components below the root     *)
(* (pathlib's PurePosixPath after resolve()).  The full-width characters   *)
(* of CHAR_REPLACEMENT_MAP are written as their code points ("U+FF1C").    *)
(***************************************************************************)
EXTENDS Integers, Sequences, FiniteSets, TLC

VARIABLES
    fs,               \* the filesystem: path -> [kind, id] for every existing entry
    undo_batches,     \* table undo_batches: set of rows [id, timestamp, description, undone]
    undo_operations,  \* table undo_operations: sequence of rows in rowid order
    committed,        \* the two tables as committed: what another connection reads
    clock,            \* the last reading of datetime.now(), as a counter
    tree,             \* the RenameJSON handed to the last validator / renamer call
    call,             \* the last API call: its name, arguments and result
    hist              \* history: what the bounds and the claims need of the past

vars == <<fs, undo_batches, undo_operations, committed, clock, tree, call, hist>>

----------------------------------------------------------------------------
(* Sequence helpers *)

Range(s) == {s[i] : i \in 1..Len(s)}

SeqsUpTo(S, n) == UNION {[1..k -> S] : k \in 0..n}

\* Body applied to the value of x, with x evaluated once: a local variable of the
\* code whose value later statements read several times.
Let(x, Body(_)) == CHOOSE r \in {Body(v) : v \in {x}} : TRUE

----------------------------------------------------------------------------
(* validator.py: illegal characters and their replacements *)

ILLEGAL_CHARS == {"/", "\\", ":", "*", "?", "\"", "<", ">", "|"}

CHAR_REPLACEMENT_MAP ==
    [c \in ILLEGAL_CHARS |->
        CASE c = "/"  -> "U+FF0F"
          [] c = "\\" -> "U+FF3C"
          [] c = ":"  -> "U+FF1A"
          [] c = "*"  -> "U+FF0A"
          [] c = "?"  -> "U+FF1F"
          [] c = "\"" -> "U+FF02"
          [] c = "<"  -> "U+FF1C"
          [] c = ">"  -> "U+FF1E"
          [] c = "|"  -> "U+FF5C"]

\* CHAR_REPLACEMENT_MAP.get(char, '_')
MapGet(char) == IF char \in DOMAIN CHAR_REPLACEMENT_MAP THEN CHAR_REPLACEMENT_MAP[char] ELSE "_"

\* ILLEGAL_CHARS_PATTERN.findall(s): the illegal characters of s, in order, with repeats
FindAll(s) == SelectSeq(s, LAMBDA c : c \in ILLEGAL_CHARS)

\* s.rfind('.') as a 1-based index, 0 when there is none
RFindDot(s) == IF \E i \in 1..Len(s) : s[i] = "."
               THEN CHOOSE i \in 1..Len(s) : s[i] = "." /\ \A j \in (i+1)..Len(s) : s[j] # "."
               ELSE 0

\* s.replace(char, replacement): every occurrence
Replace(s, char, replacement) == [i \in 1..Len(s) |-> IF s[i] = char THEN replacement ELSE s[i]]

\* A message of the validator: its bracketed tag, and whether its text holds the
\* words the validator tests for when it picks the conflict type (line 250).
Msg(tag, illegalWords, detail) == [tag |-> tag, illegalWords |-> illegalWords, detail |-> detail]

IsError(msg) == msg.tag = "[ERROR]"

\* The loop of lines 81-85 over found_chars: acc = <<sanitized_base, replaced_chars>>
RECURSIVE ReplaceLoop(_, _, _, _)

\* Mutant: each replacement starts again from base_name, so only the last one lasts
ReplaceLoop_FromBaseName(found_chars, base_name, sanitized_base, replaced_chars) ==
    IF found_chars = <<>> THEN <<sanitized_base, replaced_chars>>
    ELSE LET char == Head(found_chars) IN
         IF char \in Range(base_name)
         THEN ReplaceLoop(Tail(found_chars), base_name,
                          Replace(base_name, char, MapGet(char)),
                          Append(replaced_chars, <<char, MapGet(char)>>))
         ELSE ReplaceLoop(Tail(found_chars), base_name, sanitized_base, replaced_chars)

ReplaceLoop(found_chars, base_name, sanitized_base, replaced_chars) ==
    IF found_chars = <<>> THEN <<sanitized_base, replaced_chars>>
    ELSE LET char == Head(found_chars) IN
         IF char \in Range(base_name)
         THEN ReplaceLoop(Tail(found_chars), base_name,
                          Replace(sanitized_base, char, MapGet(char)),
                          Append(replaced_chars, <<char, MapGet(char)>>))
         ELSE ReplaceLoop(Tail(found_chars), base_name, sanitized_base, replaced_chars)

\* sanitize_filename(name, is_dir) -> [name, warnings]
sanitize_filename(name, is_dir) ==
    LET found_chars == FindAll(name) IN
    IF name = <<>> THEN [name |-> name, warnings |-> <<>>]
    ELSE IF found_chars = <<>> THEN [name |-> name, warnings |-> <<>>]
    ELSE LET split     == ~is_dir /\ "." \in Range(name)
             last_dot  == RFindDot(name)
             base_name == IF split THEN SubSeq(name, 1, last_dot - 1) ELSE name
             ext       == IF split THEN SubSeq(name, last_dot, Len(name)) ELSE <<>>
             ext_illegal == FindAll(ext)
         IN  IF split /\ ext_illegal # <<>>
             THEN [name |-> name,
                   warnings |-> <<Msg("[ERROR]", TRUE, <<"ext", ext, ext_illegal>>)>>]
             ELSE LET r == ReplaceLoop(found_chars, base_name, base_name, <<>>)
                      sanitized_base == r[1]
                      replaced_chars == r[2]
                  IN  [name |-> sanitized_base \o ext,
                       warnings |-> IF replaced_chars # <<>>
                                    THEN <<Msg("[AUTO-FIX]", TRUE, replaced_chars)>>
                                    ELSE <<>>]

----------------------------------------------------------------------------
(* validator.py: extension placement *)

common_exts == {
    <<".","t","x","t">>, <<".","j","s","o","n">>, <<".","x","m","l">>, <<".","h","t","m","l">>,
    <<".","h","t","m">>, <<".","c","s","s">>, <<".","j","s">>, <<".","t","s">>,
    <<".","p","y">>, <<".","j","a","v","a">>, <<".","c","p","p">>, <<".","c">>, <<".","h">>,
    <<".","h","p","p">>, <<".","c","s">>, <<".","g","o">>, <<".","r","s">>, <<".","m","d">>,
    <<".","y","a","m","l">>, <<".","y","m","l">>, <<".","t","o","m","l">>, <<".","i","n","i">>,
    <<".","c","f","g">>, <<".","c","o","n","f">>, <<".","j","p","g">>, <<".","j","p","e","g">>,
    <<".","p","n","g">>, <<".","g","i","f">>, <<".","b","m","p">>, <<".","w","e","b","p">>,
    <<".","a","v","i","f">>, <<".","s","v","g">>, <<".","m","p","3">>, <<".","m","p","4">>,
    <<".","a","v","i">>, <<".","m","k","v">>, <<".","m","o","v">>, <<".","w","a","v">>,
    <<".","f","l","a","c">>, <<".","z","i","p">>, <<".","r","a","r">>, <<".","7","z">>,
    <<".","t","a","r">>, <<".","g","z">>, <<".","b","z","2">>, <<".","p","d","f">>,
    <<".","d","o","c">>, <<".","d","o","c","x">>, <<".","x","l","s">>, <<".","x","l","s","x">>,
    <<".","p","p","t">>, <<".","p","p","t","x">>, <<".","e","x","e">>, <<".","d","l","l">>,
    <<".","s","o">>, <<".","d","y","l","i","b">>, <<".","b","i","n">>, <<".","l","o","g">>,
    <<".","b","a","k">>, <<".","t","m","p">>, <<".","c","a","c","h","e">>}

UpperCase == <<"A","B","C","D","E","F","G","H","I","J","K","L","M",
               "N","O","P","Q","R","S","T","U","V","W","X","Y","Z">>
LowerCase == <<"a","b","c","d","e","f","g","h","i","j","k","l","m",
               "n","o","p","q","r","s","t","u","v","w","x","y","z">>

\* str.lower(), character by character
LowerChar(c) == IF \E i \in 1..26 : UpperCase[i] = c
                THEN LowerCase[CHOOSE i \in 1..26 : UpperCase[i] = c]
                ELSE c
Lower(s) == [i \in 1..Len(s) |-> LowerChar(s[i])]

\* s.split(sep): the pieces between the separators (always at least one piece)
RECURSIVE SplitOn(_, _)
SplitOn(s, sep) ==
    IF sep \notin Range(s) THEN <<s>>
    ELSE LET i == CHOOSE k \in 1..Len(s) : s[k] = sep /\ \A j \in 1..(k-1) : s[j] # sep
         IN  <<SubSeq(s, 1, i - 1)>> \o SplitOn(SubSeq(s, i + 1, Len(s)), sep)

\* '.' + part.split('_')[0].split('-')[0]
PotentialExt(part) == <<".">> \o SplitOn(SplitOn(part, "_")[1], "-")[1]

\* validate_extension_position(name) -> errors
validate_extension_position(name) ==
    IF name = <<>> \/ "." \notin Range(name) THEN <<>>
    ELSE LET parts == SplitOn(name, ".")
             flagged(part) == ("_" \in Range(part) \/ "-" \in Range(part))
                              /\ Lower(PotentialExt(part)) \in common_exts
             rest == SubSeq(parts, 2, Len(parts))
         IN  IF Len(parts) < 2 THEN <<>>
             ELSE [i \in 1..Len(SelectSeq(rest, flagged)) |->
                      Msg("[ERROR]", FALSE, <<"suffix", PotentialExt(SelectSeq(rest, flagged)[i])>>)]

\* validate_target_name(tgt, src, is_dir) -> [name, messages]
validate_target_name(tgt, src, is_dir) ==
    IF tgt = <<>> THEN [name |-> tgt, messages |-> <<>>]
    ELSE LET s == sanitize_filename(tgt, is_dir)
             sanitized == s.name
             char_warnings == s.warnings
         IN  IF \E i \in 1..Len(char_warnings) : IsError(char_warnings[i])
             THEN [name |-> tgt, messages |-> char_warnings]
             ELSE IF is_dir THEN [name |-> sanitized, messages |-> char_warnings]
             ELSE LET ext_errors == validate_extension_position(sanitized)
                      src_ext == Lower(SubSeq(src, RFindDot(src), Len(src)))
                      tgt_ext == Lower(SubSeq(sanitized, RFindDot(sanitized), Len(sanitized)))
                      ext_warning ==
                          IF "." \in Range(src) /\ "." \in Range(sanitized) /\ src_ext # tgt_ext
                          THEN <<Msg("[WARNING]", FALSE, <<"ext", src_ext, tgt_ext>>)>>
                          ELSE <<>>
                  IN  [name |-> sanitized,
                       messages |-> char_warnings \o ext_errors \o ext_warning]

----------------------------------------------------------------------------
(* models.py: the rename tree *)

FileNode(src, tgt) == [kind |-> "file", src |-> src, tgt |-> tgt]

DirNode(src_dir, tgt_dir, children) ==
    [kind |-> "dir", src_dir |-> src_dir, tgt_dir |-> tgt_dir, children |-> children]

SrcOf(node) == IF node.kind = "file" THEN node.src ELSE node.src_dir
TgtOf(node) == IF node.kind = "file" THEN node.tgt ELSE node.tgt_dir

is_pending(node) == TgtOf(node) = <<>>

is_ready(node) == TgtOf(node) # <<>> /\ SrcOf(node) # TgtOf(node)

\* models.py: count_pending / count_total / count_ready. The RenameJSON branch
\* (the sum over root) and the loop over a directory's children are the *_root
\* operators; the node branches are the functions themselves.
RECURSIVE count_pending(_)
RECURSIVE count_pending_root(_)
count_pending_root(root) ==
    IF root = <<>> THEN 0 ELSE count_pending(Head(root)) + count_pending_root(Tail(root))

count_pending(node) ==
    IF node.kind = "file" THEN (IF is_pending(node) THEN 1 ELSE 0)
    ELSE (IF is_pending(node) THEN 1 ELSE 0) + count_pending_root(node.children)

\* A count_total that leaves the directory itself out
RECURSIVE count_total_ChildrenOnly(_)
RECURSIVE count_total_root(_)
count_total_ChildrenOnly(node) ==
    IF node.kind = "file" THEN 1 ELSE count_total_root(node.children)

RECURSIVE count_total(_)
count_total_root(root) ==
    IF root = <<>> THEN 0 ELSE count_total(Head(root)) + count_total_root(Tail(root))

count_total(node) ==
    IF node.kind = "file" THEN 1 ELSE 1 + count_total_root(node.children)

RECURSIVE count_ready(_)
RECURSIVE count_ready_root(_)
count_ready_root(root) ==
    IF root = <<>> THEN 0 ELSE count_ready(Head(root)) + count_ready_root(Tail(root))

count_ready(node) ==
    IF node.kind = "file" THEN (IF is_ready(node) THEN 1 ELSE 0)
    ELSE (IF is_ready(node) THEN 1 ELSE 0) + count_ready_root(node.children)

\* class ConflictType(str, Enum): the members the enum defines.  Reading any other
\* attribute of the class raises AttributeError.
ConflictType == {"TARGET_EXISTS", "DUPLICATE_TARGET"}

Conflict(type, src_path, tgt_path, message) ==
    [type |-> type, src_path |-> src_path, tgt_path |-> tgt_path, message |-> message]

----------------------------------------------------------------------------
(* pathlib (POSIX flavour): paths are sequences of components below "/" *)

\* parent_path / name: the name is split at "/", empty and "." components are
\* dropped, a name starting with "/" replaces the parent; ".." is kept as it is.
PathJoin(parent_path, name) ==
    LET comps == SelectSeq(SplitOn(name, "/"), LAMBDA c : c # <<>> /\ c # <<".">>)
    IN  IF name # <<>> /\ name[1] = "/" THEN comps ELSE parent_path \o comps

Parent(path) == SubSeq(path, 1, Len(path) - 1)

Basename(path) == path[Len(path)]

IsPrefix(p, q) == Len(p) <= Len(q) /\ SubSeq(q, 1, Len(p)) = p

\* str(path): "/" before every component
RECURSIVE StrOfPath(_)
StrOfPath(path) ==
    IF path = <<>> THEN <<>> ELSE <<"/">> \o Head(path) \o StrOfPath(Tail(path))

\* The characters of the model in code point order (Python compares strings by
\* code point).
CodePointOrder ==
    <<"\"", "*", "-", ".", "/", "0", "1", "2", "3", "4", "5", "6", "7", "8", "9",
      ":", "<", ">", "?">> \o UpperCase \o <<"\\", "_">> \o LowerCase \o
    <<"|", "U+FF02", "U+FF0A", "U+FF0F", "U+FF1A", "U+FF1C", "U+FF1E", "U+FF1F",
      "U+FF3C", "U+FF5C">>

CodePoint(c) == CHOOSE i \in 1..Len(CodePointOrder) : CodePointOrder[i] = c

\* s < t for Python strings
RECURSIVE StrLess(_, _)
StrLess(s, t) ==
    IF t = <<>> THEN FALSE
    ELSE IF s = <<>> THEN TRUE
    ELSE IF Head(s) = Head(t) THEN StrLess(Tail(s), Tail(t))
    ELSE CodePoint(Head(s)) < CodePoint(Head(t))

----------------------------------------------------------------------------
(* The filesystem *)

Exists(f, path) == path = <<>> \/ path \in DOMAIN f

IsDir(f, path) == path = <<>> \/ (path \in DOMAIN f /\ f[path].kind = "dir")

IsFile(f, path) == path \in DOMAIN f /\ f[path].kind = "file"

\* Every entry lies in a directory.
WellFormed(f) == \A p \in DOMAIN f : p # <<>> /\ IsDir(f, Parent(p))

----------------------------------------------------------------------------
(* validator.py: ConflictValidator.validate *)

\* The loop over messages (lines 246-255 and 280-289): an [ERROR] message becomes a
\* conflict whose type is read from ConflictType by attribute name.
RECURSIVE MessageConflicts(_, _, _, _, _)
MessageConflicts(messages, is_dir, src_path, raw_tgt_path, acc) ==
    IF messages = <<>> \/ acc.raised # "" THEN acc
    ELSE LET msg == Head(messages)
             attr == IF is_dir THEN "ILLEGAL_CHARS"
                     ELSE IF msg.illegalWords THEN "ILLEGAL_CHARS" ELSE "INVALID_EXTENSION"
         IN  IF ~IsError(msg)
             THEN MessageConflicts(Tail(messages), is_dir, src_path, raw_tgt_path, acc)
             ELSE IF attr \notin ConflictType
             THEN [acc EXCEPT !.raised = "AttributeError"]
             ELSE Let([acc EXCEPT !.conflicts =
                          Append(@, Conflict(attr, src_path, raw_tgt_path, msg.tag))],
                      LAMBDA acc1 : MessageConflicts(Tail(messages), is_dir, src_path,
                                                     raw_tgt_path, acc1))

\* A test that leaves out the comparison with the source path
_check_target_exists_AnyExisting(f, src_path, tgt_path) == Exists(f, tgt_path)

_check_target_exists(f, src_path, tgt_path) ==
    IF src_path = tgt_path THEN FALSE ELSE Exists(f, tgt_path)

\* target_paths[tgt_path].append(src_path) on an insertion-ordered dict
RecordTarget(target_paths, tgt_path, src_path) ==
    IF \E i \in 1..Len(target_paths) : target_paths[i].tgt = tgt_path
    THEN [i \in 1..Len(target_paths) |->
             IF target_paths[i].tgt = tgt_path
             THEN [target_paths[i] EXCEPT !.srcs = Append(@, src_path)]
             ELSE target_paths[i]]
    ELSE Append(target_paths, [tgt |-> tgt_path, srcs |-> <<src_path>>])

\* A body that records the target path only when it is free
ValidateReady_RecordsFreeTargets(f, node, parent_path, acc) ==
    LET is_dir    == node.kind = "dir"
        src_path  == PathJoin(parent_path, SrcOf(node))
        v         == validate_target_name(TgtOf(node), SrcOf(node), is_dir)
        tgt_path  == PathJoin(parent_path, v.name)
    IN  Let(MessageConflicts(v.messages, is_dir, src_path,
                             PathJoin(parent_path, TgtOf(node)), acc),
            LAMBDA acc1 :
                IF acc1.raised # "" THEN acc1
                ELSE IF _check_target_exists(f, src_path, tgt_path)
                THEN [acc1 EXCEPT
                        !.conflicts = Append(@, Conflict("TARGET_EXISTS", src_path,
                                                         tgt_path, "exists"))]
                ELSE [acc1 EXCEPT !.target_paths = RecordTarget(@, tgt_path, src_path)])

\* The body of _validate_node for one ready node (file or directory)
ValidateReady(f, node, parent_path, acc) ==
    LET is_dir    == node.kind = "dir"
        src_path  == PathJoin(parent_path, SrcOf(node))
        v         == validate_target_name(TgtOf(node), SrcOf(node), is_dir)
        tgt_path  == PathJoin(parent_path, v.name)
    IN  Let(MessageConflicts(v.messages, is_dir, src_path,
                             PathJoin(parent_path, TgtOf(node)), acc),
            LAMBDA acc1 :
                IF acc1.raised # "" THEN acc1
                ELSE [acc1 EXCEPT
                        !.conflicts =
                            IF _check_target_exists(f, src_path, tgt_path)
                            THEN Append(@, Conflict("TARGET_EXISTS", src_path, tgt_path,
                                                    "exists"))
                            ELSE @,
                        !.target_paths = RecordTarget(@, tgt_path, src_path)])

RECURSIVE _validate_node(_, _, _, _)
RECURSIVE ValidateNodes(_, _, _, _)

\* for child in nodes: self._validate_node(child, parent_path, ...)
ValidateNodes(f, nodes, parent_path, acc) ==
    IF nodes = <<>> \/ acc.raised # "" THEN acc
    ELSE Let(_validate_node(f, Head(nodes), parent_path, acc),
             LAMBDA acc1 : ValidateNodes(f, Tail(nodes), parent_path, acc1))

\* A walk that goes into ready directories only
_validate_node_ReadyDirsOnly(f, node, parent_path, acc) ==
    IF acc.raised # "" THEN acc
    ELSE IF node.kind = "file"
    THEN IF is_ready(node) THEN ValidateReady(f, node, parent_path, acc) ELSE acc
    ELSE LET current_path == PathJoin(parent_path, node.src_dir)
         IN  IF is_ready(node)
             THEN Let(ValidateReady(f, node, parent_path, acc),
                      LAMBDA acc1 : ValidateNodes(f, node.children, current_path, acc1))
             ELSE acc

_validate_node(f, node, parent_path, acc) ==
    IF acc.raised # "" THEN acc
    ELSE IF node.kind = "file"
    THEN IF is_ready(node) THEN ValidateReady(f, node, parent_path, acc) ELSE acc
    ELSE LET current_path == PathJoin(parent_path, node.src_dir)
         IN  Let(IF is_ready(node) THEN ValidateReady(f, node, parent_path, acc) ELSE acc,
                 LAMBDA acc1 : ValidateNodes(f, node.children, current_path, acc1))

\* _check_duplicate_targets: the dict in insertion order, each list in append order
RECURSIVE _check_duplicate_targets(_)
_check_duplicate_targets(target_paths) ==
    IF target_paths = <<>> THEN <<>>
    ELSE LET e == Head(target_paths)
             here == IF Len(e.srcs) > 1
                     THEN [i \in 1..Len(e.srcs) |->
                              Conflict("DUPLICATE_TARGET", e.srcs[i], e.tgt, "duplicate")]
                     ELSE <<>>
         IN  here \o _check_duplicate_targets(Tail(target_paths))

\* validate(rename_json, base_path) on filesystem f -> [raised, conflicts]
validate(f, rename_json, base_path) ==
    Let(ValidateNodes(f, rename_json, base_path,
                      [conflicts |-> <<>>, target_paths |-> <<>>, raised |-> ""]),
        LAMBDA acc :
            IF acc.raised # "" THEN [raised |-> acc.raised, conflicts |-> <<>>]
            ELSE [raised |-> "",
                  conflicts |-> acc.conflicts \o _check_duplicate_targets(acc.target_paths)])

----------------------------------------------------------------------------
(* validator.py: ConflictValidator.get_valid_operations *)

\* sorted(dup_list, key=lambda c: str(c.src_path)): a stable insertion sort
RECURSIVE InsertSorted(_, _)
InsertSorted(sorted, c) ==
    IF sorted = <<>> THEN <<c>>
    ELSE IF StrLess(StrOfPath(c.src_path), StrOfPath(Head(sorted).src_path))
    THEN <<c>> \o sorted
    ELSE <<Head(sorted)>> \o InsertSorted(Tail(sorted), c)

RECURSIVE SortBySrc(_)
SortBySrc(dup_list) ==
    IF dup_list = <<>> THEN <<>>
    ELSE Let(SortBySrc(SubSeq(dup_list, 1, Len(dup_list) - 1)),
             LAMBDA sorted : InsertSorted(sorted, dup_list[Len(dup_list)]))

\* Lines 366-401: what smart dedup makes of the conflict list
SmartDedup(conflicts) ==
    LET dup_conflicts == SelectSeq(conflicts, LAMBDA c : c.type = "DUPLICATE_TARGET")
        dup_targets   == {dup_conflicts[i].tgt_path : i \in 1..Len(dup_conflicts)}
        dup_list(t)   == SelectSeq(dup_conflicts, LAMBDA c : c.tgt_path = t)
        kept_targets  == dup_targets
    IN  Let(UNION {{<<c.src_path, c.tgt_path>> :
                       c \in Range(Tail(SortBySrc(dup_list(t))))} : t \in dup_targets},
            LAMBDA skip_paths :
                Let(SelectSeq(conflicts, LAMBDA c :
                        ~(c.type = "DUPLICATE_TARGET" /\ c.tgt_path \in kept_targets
                          /\ <<c.src_path, c.tgt_path>> \notin skip_paths)),
                    LAMBDA remaining :
                        [i \in 1..Len(remaining) |->
                            IF <<remaining[i].src_path, remaining[i].tgt_path>> \in skip_paths
                            THEN [remaining[i] EXCEPT !.message = "skipped"]
                            ELSE remaining[i]]))

\* Mutant: a target already claimed in this pass is not skipped
CollectReady_NoSeenTargets(node, parent_path, conflict_paths, acc) ==
    LET src == PathJoin(parent_path, SrcOf(node))
        tgt == PathJoin(parent_path, TgtOf(node))
    IN  IF <<src, tgt>> \notin conflict_paths
        THEN [operations |-> Append(acc.operations, <<src, tgt>>),
              seen_targets |-> acc.seen_targets \cup {tgt}]
        ELSE acc

\* A collector that looks at seen_targets only
CollectReady_IgnoresConflicts(node, parent_path, conflict_paths, acc) ==
    LET src == PathJoin(parent_path, SrcOf(node))
        tgt == PathJoin(parent_path, TgtOf(node))
    IN  IF tgt \notin acc.seen_targets
        THEN [operations |-> Append(acc.operations, <<src, tgt>>),
              seen_targets |-> acc.seen_targets \cup {tgt}]
        ELSE acc

\* One ready node in collect_operations (lines 411-417 and 425-429)
CollectReady(node, parent_path, conflict_paths, acc) ==
    LET src == PathJoin(parent_path, SrcOf(node))
        tgt == PathJoin(parent_path, TgtOf(node))
    IN  IF <<src, tgt>> \notin conflict_paths /\ tgt \notin acc.seen_targets
        THEN [operations |-> Append(acc.operations, <<src, tgt>>),
              seen_targets |-> acc.seen_targets \cup {tgt}]
        ELSE acc

RECURSIVE collect_operations(_, _, _, _)
RECURSIVE CollectNodes(_, _, _, _)

CollectNodes(nodes, parent_path, conflict_paths, acc) ==
    IF nodes = <<>> THEN acc
    ELSE Let(collect_operations(Head(nodes), parent_path, conflict_paths, acc),
             LAMBDA acc1 : CollectNodes(Tail(nodes), parent_path, conflict_paths, acc1))

\* Mutant: the directory itself is collected before its children
collect_operations_ParentFirst(node, parent_path, conflict_paths, acc) ==
    IF node.kind = "file"
    THEN IF is_ready(node) THEN CollectReady(node, parent_path, conflict_paths, acc) ELSE acc
    ELSE LET src_path == PathJoin(parent_path, node.src_dir)
         IN  Let(IF is_ready(node)
                 THEN CollectReady(node, parent_path, conflict_paths, acc)
                 ELSE acc,
                 LAMBDA acc1 : CollectNodes(node.children, src_path, conflict_paths, acc1))

\* Mutant: the children's paths are built on the directory's target name
collect_operations_TargetParent(node, parent_path, conflict_paths, acc) ==
    IF node.kind = "file"
    THEN IF is_ready(node) THEN CollectReady(node, parent_path, conflict_paths, acc) ELSE acc
    ELSE LET src_path == PathJoin(parent_path,
                                  IF is_ready(node) THEN node.tgt_dir ELSE node.src_dir)
         IN  Let(CollectNodes(node.children, src_path, conflict_paths, acc),
                 LAMBDA acc1 :
                     IF is_ready(node)
                     THEN CollectReady(node, parent_path, conflict_paths, acc1)
                     ELSE acc1)

collect_operations(node, parent_path, conflict_paths, acc) ==
    IF node.kind = "file"
    THEN IF is_ready(node) THEN CollectReady(node, parent_path, conflict_paths, acc) ELSE acc
    ELSE LET src_path == PathJoin(parent_path, node.src_dir)
         IN  Let(CollectNodes(node.children, src_path, conflict_paths, acc),
                 LAMBDA acc1 :
                     IF is_ready(node)
                     THEN CollectReady(node, parent_path, conflict_paths, acc1)
                     ELSE acc1)

\* get_valid_operations(rename_json, base_path, smart_dedup) on filesystem f
\*   -> [raised, operations, conflicts]
get_valid_operations(f, rename_json, base_path, smart_dedup) ==
    Let(validate(f, rename_json, base_path), LAMBDA v :
        IF v.raised # "" THEN [raised |-> v.raised, operations |-> <<>>, conflicts |-> <<>>]
        ELSE Let(IF smart_dedup THEN SmartDedup(v.conflicts) ELSE v.conflicts,
                 LAMBDA conflicts :
            Let({<<conflicts[i].src_path, conflicts[i].tgt_path>> : i \in 1..Len(conflicts)},
                LAMBDA conflict_paths :
                [raised |-> "",
                 operations |-> CollectNodes(rename_json, base_path, conflict_paths,
                                    [operations |-> <<>>, seen_targets |-> {}]).operations,
                 conflicts |-> conflicts])))

----------------------------------------------------------------------------
(* renamer.py: FileRenamer.collect_operations *)

RECURSIVE collect(_, _, _)
RECURSIVE CollectAll(_, _, _)

CollectAll(nodes, parent_path, operations) ==
    IF nodes = <<>> THEN operations
    ELSE Let(collect(Head(nodes), parent_path, operations),
             LAMBDA ops1 : CollectAll(Tail(nodes), parent_path, ops1))

collect(node, parent_path, operations) ==
    IF node.kind = "file"
    THEN IF is_ready(node)
         THEN Append(operations, <<PathJoin(parent_path, node.src),
                                   PathJoin(parent_path, node.tgt)>>)
         ELSE operations
    ELSE LET src_path == PathJoin(parent_path, node.src_dir)
         IN  Let(CollectAll(node.children, src_path, operations),
                 LAMBDA ops1 :
                     IF is_ready(node)
                     THEN Append(ops1, <<src_path, PathJoin(parent_path, node.tgt_dir)>>)
                     ELSE ops1)

renamer_collect_operations(rename_json, base_path) == CollectAll(rename_json, base_path, <<>>)

----------------------------------------------------------------------------
(* shutil.move and the renamer *)

\* The entries at or below src
Under(f, src) == {p \in DOMAIN f : IsPrefix(src, p)}

\* The filesystem with the entry src, and all below it, now at dst; the missing
\* directories above dst are created (os.makedirs in copytree), new ones have id 0.
Relocate(f, src, dst) ==
    LET moved == {dst \o SubSeq(p, Len(src) + 1, Len(p)) : p \in Under(f, src)}
        made == {SubSeq(dst, 1, k) : k \in 1..(Len(dst) - 1)} \ DOMAIN f
        kept == DOMAIN f \ Under(f, src)
    IN  [p \in kept \cup made \cup moved |->
            IF p \in moved THEN f[src \o SubSeq(p, Len(dst) + 1, Len(p))]
            ELSE IF p \in made THEN [kind |-> "dir", id |-> 0]
            ELSE f[p]]

\* shutil.move(src, dst) for an existing src: [ok, fs].  A destination that is a
\* directory takes the entry inside it; os.rename needs the destination's directory
\* and replaces a file by a file; a directory whose os.rename fails is copied
\* (copytree creates the directories above it) and removed.
Move(f, src, dst) ==
    LET real_dst == IF IsDir(f, dst) /\ dst # src THEN dst \o <<Basename(src)>> ELSE dst
        fail == [ok |-> FALSE, fs |-> f]
    IN  IF dst = src THEN [ok |-> TRUE, fs |-> f]
        ELSE IF IsDir(f, dst) /\ Exists(f, real_dst) THEN fail
        ELSE IF IsPrefix(src, real_dst) THEN fail
        ELSE IF IsDir(f, Parent(real_dst))
        THEN IF ~Exists(f, real_dst) \/ (IsFile(f, src) /\ IsFile(f, real_dst))
             THEN [ok |-> TRUE, fs |-> Relocate(f, src, real_dst)]
             ELSE fail
        ELSE IF /\ IsDir(f, src)
                /\ \A k \in 1..(Len(real_dst) - 1) :
                      Exists(f, SubSeq(real_dst, 1, k)) => IsDir(f, SubSeq(real_dst, 1, k))
             THEN [ok |-> TRUE, fs |-> Relocate(f, src, real_dst)]
             ELSE fail

\* A _rename_single that does not look at the target before it moves
_rename_single_NoTargetCheck(f, src, tgt) ==
    IF ~Exists(f, src) THEN [ok |-> FALSE, fs |-> f]
    ELSE Move(f, src, tgt)

\* renamer.py: FileRenamer._rename_single: [ok, fs]
_rename_single(f, src, tgt) ==
    IF ~Exists(f, src) THEN [ok |-> FALSE, fs |-> f]
    ELSE IF Exists(f, tgt) THEN [ok |-> FALSE, fs |-> f]
    ELSE Move(f, src, tgt)

RenameOperation(original_path, new_path) ==
    [original_path |-> original_path, new_path |-> new_path]

\* The loop of rename_batch (lines 78-89):
\* acc = [fs, success_count, failed_count, executed_operations]
\* A loop that counts the successes only
RECURSIVE RenameLoop_CountsSuccesses(_, _)
RenameLoop_CountsSuccesses(operations, acc) ==
    IF operations = <<>> THEN acc
    ELSE LET src_path == Head(operations)[1]
             tgt_path == Head(operations)[2]
         IN  Let(_rename_single(acc.fs, src_path, tgt_path),
                 LAMBDA r :
                     Let(IF r.ok
                         THEN [fs |-> r.fs,
                               success_count |-> acc.success_count + 1,
                               failed_count |-> acc.failed_count,
                               executed_operations |->
                                   Append(acc.executed_operations,
                                          RenameOperation(src_path, tgt_path))]
                         ELSE acc,
                         LAMBDA acc1 : RenameLoop_CountsSuccesses(Tail(operations), acc1)))

RECURSIVE RenameLoop(_, _)
RenameLoop(operations, acc) ==
    IF operations = <<>> THEN acc
    ELSE LET src_path == Head(operations)[1]
             tgt_path == Head(operations)[2]
         IN  Let(_rename_single(acc.fs, src_path, tgt_path),
                 LAMBDA r :
                     Let(IF r.ok
                         THEN [fs |-> r.fs,
                               success_count |-> acc.success_count + 1,
                               failed_count |-> acc.failed_count,
                               executed_operations |->
                                   Append(acc.executed_operations,
                                          RenameOperation(src_path, tgt_path))]
                         ELSE [acc EXCEPT !.failed_count = @ + 1],
                         LAMBDA acc1 : RenameLoop(Tail(operations), acc1)))

----------------------------------------------------------------------------
(* undo.py: the ledger *)

\* A path read back from its text: Path(str)
PathOfStr(s) == PathJoin(<<>>, s)

\* A row of undo_batches (lines 41-46) and of undo_operations (lines 51-58; the
\* autoincrement id is the row's place in the sequence)
BatchRow(id, timestamp, description, undone) ==
    [id |-> id, timestamp |-> timestamp, description |-> description, undone |-> undone]

OperationRow(batch_id, original_path, new_path, seq_order) ==
    [batch_id |-> batch_id, original_path |-> original_path, new_path |-> new_path,
     seq_order |-> seq_order]

\* The two tables together
Ledger(batches, rows) == [undo_batches |-> batches, undo_operations |-> rows]

\* A lone surrogate, which is how Python reads a byte of a file name that is not
\* UTF-8; sqlite3 cannot bind a text that holds one
Surrogate == "U+DC80"

Encodable(text) == \A i \in 1..Len(text) : text[i] # Surrogate

\* The operations record's loop inserts before an execute raises
RECURSIVE Bindable(_)
Bindable(operations) ==
    IF operations = <<>> THEN <<>>
    ELSE IF /\ Encodable(StrOfPath(Head(operations).original_path))
            /\ Encodable(StrOfPath(Head(operations).new_path))
    THEN <<Head(operations)>> \o Bindable(Tail(operations))
    ELSE <<>>

\* The rows of record's loop (lines 96-102)
RECURSIVE RecordRows(_, _, _)
RecordRows(batch_id, operations, seq) ==
    IF operations = <<>> THEN <<>>
    ELSE <<OperationRow(batch_id, StrOfPath(Head(operations).original_path),
                        StrOfPath(Head(operations).new_path), seq)>>
         \o RecordRows(batch_id, Tail(operations), seq + 1)

\* UndoManager.record, with uuid4()[:8] = batch_id and datetime.now() = now:
\* [raised, id, undo_batches, undo_operations].  The primary key rejects an id that
\* is in the table.  An execute that raises in the loop leaves the rows inserted
\* so far in the connection's open transaction: there is no rollback.
record(batches, rows, batch_id, now, operations, description) ==
    IF operations = <<>>
    THEN [raised |-> "", id |-> "", undo_batches |-> batches, undo_operations |-> rows]
    ELSE IF \E b \in batches : b.id = batch_id
    THEN [raised |-> "IntegrityError", id |-> "", undo_batches |-> batches,
          undo_operations |-> rows]
    ELSE IF Bindable(operations) # operations
    THEN [raised |-> "UnicodeEncodeError", id |-> "",
          undo_batches |-> batches \cup {BatchRow(batch_id, now, description, FALSE)},
          undo_operations |-> rows \o RecordRows(batch_id, Bindable(operations), 0)]
    ELSE [raised |-> "", id |-> batch_id,
          undo_batches |-> batches \cup {BatchRow(batch_id, now, description, FALSE)},
          undo_operations |-> rows \o RecordRows(batch_id, operations, 0)]

\* ORDER BY seq_order (stable insertion sort)
RECURSIVE InsertBySeq(_, _)
InsertBySeq(sorted, row) ==
    IF sorted = <<>> THEN <<row>>
    ELSE IF row.seq_order < Head(sorted).seq_order THEN <<row>> \o sorted
    ELSE <<Head(sorted)>> \o InsertBySeq(Tail(sorted), row)

RECURSIVE OrderBySeq(_)
OrderBySeq(rows) ==
    IF rows = <<>> THEN <<>>
    ELSE InsertBySeq(OrderBySeq(SubSeq(rows, 1, Len(rows) - 1)), rows[Len(rows)])

Reverse(s) == [i \in 1..Len(s) |-> s[Len(s) + 1 - i]]

OperationsOf(rows, batch_id) ==
    OrderBySeq(SelectSeq(rows, LAMBDA r : r.batch_id = batch_id))

UndoResult(success_count, failed_count, failed_items) ==
    [success_count |-> success_count, failed_count |-> failed_count,
     failed_items |-> failed_items]

\* The loop of undo (lines 154-172): acc = [fs, success_count, failed_count, failed_items]
RECURSIVE UndoLoop(_, _)
\* A loop that gives up at the first operation whose new path is missing
RECURSIVE UndoLoop_StopsAtMissing(_, _)
UndoLoop_StopsAtMissing(operations, acc) ==
    IF operations = <<>> THEN acc
    ELSE LET original_path == PathOfStr(Head(operations).original_path)
             new_path == PathOfStr(Head(operations).new_path)
         IN  IF Exists(acc.fs, new_path)
             THEN Let(Move(acc.fs, new_path, original_path),
                      LAMBDA r :
                          UndoLoop_StopsAtMissing(
                              Tail(operations),
                              IF r.ok
                              THEN [acc EXCEPT !.fs = r.fs, !.success_count = @ + 1]
                              ELSE [acc EXCEPT !.failed_count = @ + 1,
                                               !.failed_items =
                                                   Append(@, <<original_path, new_path,
                                                               "shutil.Error">>)]))
             ELSE [acc EXCEPT !.failed_count = @ + 1,
                              !.failed_items =
                                  Append(@, <<original_path, new_path, "missing">>)]

UndoLoop(operations, acc) ==
    IF operations = <<>> THEN acc
    ELSE LET original_path == PathOfStr(Head(operations).original_path)
             new_path == PathOfStr(Head(operations).new_path)
         IN  Let(IF Exists(acc.fs, new_path)
                 THEN Let(Move(acc.fs, new_path, original_path),
                          LAMBDA r :
                              IF r.ok
                              THEN [acc EXCEPT !.fs = r.fs, !.success_count = @ + 1]
                              ELSE [acc EXCEPT !.failed_count = @ + 1,
                                               !.failed_items =
                                                   Append(@, <<original_path, new_path,
                                                               "shutil.Error">>)])
                 ELSE [acc EXCEPT !.failed_count = @ + 1,
                                  !.failed_items =
                                      Append(@, <<original_path, new_path, "missing">>)],
                 LAMBDA acc1 : UndoLoop(Tail(operations), acc1))

\* Mutant: a batch that is marked undone is replayed again
undo_ReplaysUndone(f, batches, rows, batch_id) ==
    IF ~\E b \in batches : b.id = batch_id
    THEN [row |-> "missing", fs |-> f, undo_batches |-> batches,
          result |-> UndoResult(0, 0, << <<<<>>, <<>>, "no such batch">> >>)]
    ELSE Let(UndoLoop(Reverse(OperationsOf(rows, batch_id)),
                      [fs |-> f, success_count |-> 0, failed_count |-> 0,
                       failed_items |-> <<>>]),
             LAMBDA acc :
                 [row |-> "active", fs |-> acc.fs,
                  undo_batches |-> {IF b.id = batch_id THEN [b EXCEPT !.undone = TRUE] ELSE b :
                                       b \in batches},
                  result |-> UndoResult(acc.success_count, acc.failed_count,
                                        acc.failed_items)])

\* Mutant: a batch id that is not in the table is replayed as a batch of no rows
undo_ReplaysMissing(f, batches, rows, batch_id) ==
    IF \E b \in batches : b.id = batch_id /\ b.undone
    THEN [row |-> "undone", fs |-> f, undo_batches |-> batches,
          result |-> UndoResult(0, 0, << <<<<>>, <<>>, "already undone">> >>)]
    ELSE Let(UndoLoop(Reverse(OperationsOf(rows, batch_id)),
                      [fs |-> f, success_count |-> 0, failed_count |-> 0,
                       failed_items |-> <<>>]),
             LAMBDA acc :
                 [row |-> IF \E b \in batches : b.id = batch_id THEN "active" ELSE "missing",
                  fs |-> acc.fs,
                  undo_batches |-> {IF b.id = batch_id THEN [b EXCEPT !.undone = TRUE] ELSE b :
                                       b \in batches},
                  result |-> UndoResult(acc.success_count, acc.failed_count,
                                        acc.failed_items)])

\* An undo that replays the operations in the order they were recorded in
undo_ReplaysInRecordedOrder(f, batches, rows, batch_id) ==
    IF ~\E b \in batches : b.id = batch_id
    THEN [row |-> "missing", fs |-> f, undo_batches |-> batches,
          result |-> UndoResult(0, 0, << <<<<>>, <<>>, "no such batch">> >>)]
    ELSE IF \E b \in batches : b.id = batch_id /\ b.undone
    THEN [row |-> "undone", fs |-> f, undo_batches |-> batches,
          result |-> UndoResult(0, 0, << <<<<>>, <<>>, "already undone">> >>)]
    ELSE Let(UndoLoop(OperationsOf(rows, batch_id),
                      [fs |-> f, success_count |-> 0, failed_count |-> 0,
                       failed_items |-> <<>>]),
             LAMBDA acc :
                 [row |-> "active", fs |-> acc.fs,
                  undo_batches |-> {IF b.id = batch_id THEN [b EXCEPT !.undone = TRUE] ELSE b :
                                       b \in batches},
                  result |-> UndoResult(acc.success_count, acc.failed_count,
                                        acc.failed_items)])

\* An undo that takes a second call on a batch as a redo and clears the flag
undo_ClearsFlagOnSecondCall(f, batches, rows, batch_id) ==
    IF ~\E b \in batches : b.id = batch_id
    THEN [row |-> "missing", fs |-> f, undo_batches |-> batches,
          result |-> UndoResult(0, 0, << <<<<>>, <<>>, "no such batch">> >>)]
    ELSE IF \E b \in batches : b.id = batch_id /\ b.undone
    THEN [row |-> "undone", fs |-> f,
          undo_batches |-> {IF b.id = batch_id THEN [b EXCEPT !.undone = FALSE] ELSE b :
                               b \in batches},
          result |-> UndoResult(0, 0, << <<<<>>, <<>>, "already undone">> >>)]
    ELSE Let(UndoLoop(Reverse(OperationsOf(rows, batch_id)),
                      [fs |-> f, success_count |-> 0, failed_count |-> 0,
                       failed_items |-> <<>>]),
             LAMBDA acc :
                 [row |-> "active", fs |-> acc.fs,
                  undo_batches |-> {IF b.id = batch_id THEN [b EXCEPT !.undone = TRUE] ELSE b :
                                       b \in batches},
                  result |-> UndoResult(acc.success_count, acc.failed_count,
                                        acc.failed_items)])

\* An undo that marks the batch undone only when every reversal succeeded
undo_MarksOnlyCleanUndo(f, batches, rows, batch_id) ==
    IF ~\E b \in batches : b.id = batch_id
    THEN [row |-> "missing", fs |-> f, undo_batches |-> batches,
          result |-> UndoResult(0, 0, << <<<<>>, <<>>, "no such batch">> >>)]
    ELSE IF \E b \in batches : b.id = batch_id /\ b.undone
    THEN [row |-> "undone", fs |-> f, undo_batches |-> batches,
          result |-> UndoResult(0, 0, << <<<<>>, <<>>, "already undone">> >>)]
    ELSE Let(UndoLoop(Reverse(OperationsOf(rows, batch_id)),
                      [fs |-> f, success_count |-> 0, failed_count |-> 0,
                       failed_items |-> <<>>]),
             LAMBDA acc :
                 [row |-> "active", fs |-> acc.fs,
                  undo_batches |-> {IF b.id = batch_id /\ acc.failed_count = 0
                                    THEN [b EXCEPT !.undone = TRUE] ELSE b : b \in batches},
                  result |-> UndoResult(acc.success_count, acc.failed_count,
                                        acc.failed_items)])

\* UndoManager.undo: [row, fs, undo_batches, result], row naming what the SELECT of
\* lines 122-125 found.  The table undo_operations is only read.
undo(f, batches, rows, batch_id) ==
    IF ~\E b \in batches : b.id = batch_id
    THEN [row |-> "missing", fs |-> f, undo_batches |-> batches,
          result |-> UndoResult(0, 0, << <<<<>>, <<>>, "no such batch">> >>)]
    ELSE IF \E b \in batches : b.id = batch_id /\ b.undone
    THEN [row |-> "undone", fs |-> f, undo_batches |-> batches,
          result |-> UndoResult(0, 0, << <<<<>>, <<>>, "already undone">> >>)]
    ELSE Let(UndoLoop(Reverse(OperationsOf(rows, batch_id)),
                      [fs |-> f, success_count |-> 0, failed_count |-> 0,
                       failed_items |-> <<>>]),
             LAMBDA acc :
                 [row |-> "active", fs |-> acc.fs,
                  undo_batches |-> {IF b.id = batch_id THEN [b EXCEPT !.undone = TRUE] ELSE b :
                                       b \in batches},
                  result |-> UndoResult(acc.success_count, acc.failed_count,
                                        acc.failed_items)])

\* The orders ORDER BY timestamp DESC can return the batches in: rows with equal
\* timestamps come in either order.
ByTimestampDesc(batches) ==
    {s \in [1..Cardinality(batches) -> batches] :
        /\ \A i, j \in DOMAIN s : i < j => s[i] # s[j] /\ s[i].timestamp >= s[j].timestamp}

Limit(s, n) == SubSeq(s, 1, IF n < Len(s) THEN n ELSE Len(s))

\* A SELECT without WHERE undone = 0: the latest batch, undone or not
LatestNotUndone_AnyBatch(batches) ==
    {s[1].id : s \in {x \in ByTimestampDesc(batches) : x # <<>>}}

\* The rows undo_latest's SELECT (lines 193-198) can return: none, or one of the
\* latest batches that are not undone
LatestNotUndone(batches) ==
    {s[1].id : s \in {x \in ByTimestampDesc({b \in batches : ~b.undone}) : x # <<>>}}

\* UndoManager.undo_latest, for the row its SELECT returned ("" for none)
undo_latest(f, batches, rows, row) ==
    IF row = ""
    THEN [row |-> "none", fs |-> f, undo_batches |-> batches,
          result |-> UndoResult(0, 0, << <<<<>>, <<>>, "nothing to undo">> >>)]
    ELSE undo(f, batches, rows, row)

UndoRecord(id, timestamp, operations, description) ==
    [id |-> id, timestamp |-> timestamp, operations |-> operations,
     description |-> description]

\* A get_history whose SELECT leaves out the batches that are marked undone
get_history_SkipsUndone(rows, ordered, limit) ==
    LET batches == Limit(SelectSeq(ordered, LAMBDA b : ~b.undone), limit)
    IN  [i \in 1..Len(batches) |->
            LET ops == OperationsOf(rows, batches[i].id)
            IN  UndoRecord(batches[i].id, batches[i].timestamp,
                           [k \in 1..Len(ops) |->
                               RenameOperation(PathOfStr(ops[k].original_path),
                                               PathOfStr(ops[k].new_path))],
                           batches[i].description)]

\* UndoManager.get_history, for the order its first SELECT returned the batches in
get_history(rows, ordered, limit) ==
    LET batches == Limit(ordered, limit)
    IN  [i \in 1..Len(batches) |->
            LET ops == OperationsOf(rows, batches[i].id)
            IN  UndoRecord(batches[i].id, batches[i].timestamp,
                           [k \in 1..Len(ops) |->
                               RenameOperation(PathOfStr(ops[k].original_path),
                                               PathOfStr(ops[k].new_path))],
                           batches[i].description)]

\* A clear_history whose SELECT orders by rising timestamp: it keeps the oldest
clear_history_KeepsOldest(batches, rows, ordered, keep_recent) ==
    IF keep_recent > 0
    THEN LET keep_ids == {r.id : r \in Range(Limit(Reverse(ordered), keep_recent))}
         IN  IF keep_ids # {}
             THEN [deleted |-> Cardinality({b \in batches : b.id \notin keep_ids}),
                   undo_batches |-> {b \in batches : b.id \in keep_ids},
                   undo_operations |-> SelectSeq(rows, LAMBDA r : r.batch_id \in keep_ids)]
             ELSE [deleted |-> -1, undo_batches |-> batches, undo_operations |-> rows]
    ELSE [deleted |-> Cardinality(batches), undo_batches |-> {}, undo_operations |-> <<>>]

\* UndoManager.clear_history, for the order its SELECT returned the batches in:
\* [deleted, undo_batches, undo_operations]; deleted is the rowcount of the last
\* statement the cursor ran (-1 after a SELECT).
clear_history_KeepsRows(batches, rows, ordered, keep_recent) ==
    IF keep_recent > 0
    THEN LET keep_ids == {r.id : r \in Range(Limit(ordered, keep_recent))}
         IN  IF keep_ids # {}
             THEN [deleted |-> Cardinality({b \in batches : b.id \notin keep_ids}),
                   undo_batches |-> {b \in batches : b.id \in keep_ids},
                   undo_operations |-> rows]
             ELSE [deleted |-> -1, undo_batches |-> batches, undo_operations |-> rows]
    ELSE [deleted |-> Cardinality(batches), undo_batches |-> {}, undo_operations |-> rows]

clear_history(batches, rows, ordered, keep_recent) ==
    IF keep_recent > 0
    THEN LET keep_ids == {r.id : r \in Range(Limit(ordered, keep_recent))}
         IN  IF keep_ids # {}
             THEN [deleted |-> Cardinality({b \in batches : b.id \notin keep_ids}),
                   undo_batches |-> {b \in batches : b.id \in keep_ids},
                   undo_operations |-> SelectSeq(rows, LAMBDA r : r.batch_id \in keep_ids)]
             ELSE [deleted |-> -1, undo_batches |-> batches, undo_operations |-> rows]
    ELSE [deleted |-> Cardinality(batches), undo_batches |-> {}, undo_operations |-> <<>>]

RenameResult(success_count, failed_count, skipped_count, conflicts, operation_id) ==
    [success_count |-> success_count, failed_count |-> failed_count,
     skipped_count |-> skipped_count, conflicts |-> conflicts,
     operation_id |-> operation_id]

NoResult == RenameResult(0, 0, 0, <<>>, "")

\* renamer.py: FileRenamer.rename_batch, with or without an undo_manager:
\* [raised, result, fs, undo_batches, undo_operations].  An exception of the
\* validator or of record leaves through rename_batch.
rename_batch(f, batches, rows, undo_manager, batch_id, now, rename_json, base_path, dry_run) ==
    Let(get_valid_operations(f, rename_json, base_path, TRUE),
        LAMBDA v :
            IF v.raised # ""
            THEN [raised |-> v.raised, result |-> NoResult, fs |-> f,
                  undo_batches |-> batches, undo_operations |-> rows]
            ELSE IF dry_run
            THEN [raised |-> "",
                  result |-> RenameResult(Len(v.operations), 0, Len(v.conflicts),
                                          v.conflicts, ""),
                  fs |-> f, undo_batches |-> batches, undo_operations |-> rows]
            ELSE Let(RenameLoop(v.operations,
                                [fs |-> f, success_count |-> 0, failed_count |-> 0,
                                 executed_operations |-> <<>>]),
                     LAMBDA acc :
                         Let(IF undo_manager /\ acc.executed_operations # <<>>
                             THEN record(batches, rows, batch_id, now,
                                         acc.executed_operations,
                                         <<"batch", Len(acc.executed_operations)>>)
                             ELSE [raised |-> "", id |-> "", undo_batches |-> batches,
                                   undo_operations |-> rows],
                             LAMBDA rec :
                                 [raised |-> rec.raised,
                                  result |-> IF rec.raised # "" THEN NoResult
                                             ELSE RenameResult(acc.success_count,
                                                               acc.failed_count,
                                                               Len(v.conflicts),
                                                               v.conflicts, rec.id),
                                  fs |-> acc.fs,
                                  undo_batches |-> rec.undo_batches,
                                  undo_operations |-> rec.undo_operations])))

----------------------------------------------------------------------------
(* Names, rename trees and filesystems the specifications draw from *)

nW == <<"w">>
nA == <<"a">>
nB == <<"b">>
nD == <<"d">>
nE == <<"e">>
nT == <<"t">>
nTLt == <<"t", "<">>
nTFw == <<"t", "U+FF1C">>
nSuffixed == <<"t", ".", "c", "_", "x">>
nExtIllegal == <<"t", ".", "<">>

nOld == <<"o", "l", "d">>
nNew == <<"n", "e", "w">>
nXTxt == <<"x", ".", "t", "x", "t">>
nYTxt == <<"y", ".", "t", "x", "t">>
nATxt == <<"a", ".", "t", "x", "t">>
nBTxt == <<"b", ".", "t", "x", "t">>
nCTxt == <<"c", ".", "t", "x", "t">>
nNotesTxt == <<"n", "o", "t", "e", "s", ".", "t", "x", "t">>
nNotesTxtOld == <<"n", "o", "t", "e", "s", ".", "t", "x", "t", "_", "o", "l", "d">>

\* The caller's base directory, resolved: /w
Base == <<nW>>

\* The number of nodes of a generated tree
MaxTreeNodes == 2

RECURSIVE ForestsOfSize(_, _, _)
RECURSIVE NodesOfSize(_, _, _)

\* The nodes with n nodes in all: a file, or a directory over a forest of n-1 nodes
NodesOfSize(F, D, n) ==
    (IF n = 1 THEN F ELSE {})
    \cup {DirNode(d[1], d[2], c) : d \in D, c \in ForestsOfSize(F, D, n - 1)}

ForestsOfSize(F, D, n) ==
    IF n = 0 THEN {<<>>}
    ELSE UNION {{<<x>> \o f : x \in NodesOfSize(F, D, k), f \in ForestsOfSize(F, D, n - k)} :
                   k \in 1..n}

ForestsUpTo(F, D, n) == UNION {ForestsOfSize(F, D, k) : k \in 0..n}

\* The scenarios of the specification, with their own names
ScenarioDirTree == <<DirNode(nOld, nNew, <<FileNode(nXTxt, nYTxt)>>)>>
ScenarioDupTree == <<FileNode(nATxt, nBTxt), FileNode(nCTxt, nBTxt)>>
ScenarioSuffixTree == <<FileNode(nNotesTxt, nNotesTxtOld)>>

\* A file whose target name is sanitized to its own name, beside one whose target
\* exists
ScenarioOwnNameTree == <<FileNode(nTFw, nTLt), FileNode(nA, nB)>>

\* Two files with the same target name in different directories
ScenarioTwoDirsTree == <<FileNode(nA, nT), DirNode(nD, <<>>, <<FileNode(nA, nT)>>)>>

\* A directory that keeps its name, and one without a target, over a file whose
\* target exists and a file whose target is free
ScenarioNoOpDirTree == <<DirNode(nD, nD, <<FileNode(nB, nA), FileNode(nA, nT)>>)>>
ScenarioPendingDirTree == <<DirNode(nD, <<>>, <<FileNode(nB, nA), FileNode(nA, nT)>>)>>

nDSlashT == <<"d", "/", "t">>

\* A file whose target names a place inside directory d, and a file inside d
\* with that target name
ScenarioSlashTree == <<FileNode(nB, nDSlashT), DirNode(nD, <<>>, <<FileNode(nA, nT)>>)>>

VFiles == {FileNode(s, t) : s \in {nA, nB}, t \in {<<>>, nT, nTLt, nTFw, nB}}
          \cup {FileNode(nA, nSuffixed), FileNode(nA, nExtIllegal)}

VDirs == {<<nD, <<>>>>, <<nD, nE>>, <<nD, nT>>}

VTrees == ForestsUpTo(VFiles, VDirs, MaxTreeNodes)
          \cup {ScenarioDirTree, ScenarioDupTree, ScenarioSuffixTree, ScenarioOwnNameTree,
                ScenarioTwoDirsTree, ScenarioNoOpDirTree, ScenarioPendingDirTree,
                ScenarioSlashTree}

\* A filesystem from a set of entries [path, kind, id]
FsOf(entries) ==
    [p \in {e.path : e \in entries} |->
        LET e == CHOOSE x \in entries : x.path = p IN [kind |-> e.kind, id |-> e.id]]

Entry(path, kind, id) == [path |-> path, kind |-> kind, id |-> id]

\* /w with a, b, d/ and d/a, and any of t, the full-width t< and e/ beside them
VSources == {Entry(Base, "dir", 1), Entry(Base \o <<nA>>, "file", 2),
             Entry(Base \o <<nB>>, "file", 3), Entry(Base \o <<nD>>, "dir", 4),
             Entry(Base \o <<nD, nA>>, "file", 5)}

VTargets == {Entry(Base \o <<nT>>, "file", 6), Entry(Base \o <<nTFw>>, "file", 7),
             Entry(Base \o <<nE>>, "dir", 8)}

VFilesystems == {FsOf(VSources \cup extra) : extra \in SUBSET VTargets}

----------------------------------------------------------------------------
(* SpecValidator: the validator and the renamer's collector on every bounded tree *)

InitValidator ==
    /\ fs \in VFilesystems
    /\ tree \in VTrees
    /\ undo_batches = {}
    /\ undo_operations = <<>>
    /\ clock = 0
    /\ hist = <<>>
    /\ call = [op |-> "input"]
    /\ committed = Ledger(undo_batches, undo_operations)

Validate ==
    /\ call' = [op |-> "validate", result |-> validate(fs, tree, Base)]
    /\ UNCHANGED <<fs, undo_batches, undo_operations, committed, clock, tree, hist>>

GetValidOperations ==
    \E smart_dedup \in BOOLEAN :
        /\ call' = [op |-> "get_valid_operations", smart_dedup |-> smart_dedup,
                    result |-> get_valid_operations(fs, tree, Base, smart_dedup)]
        /\ UNCHANGED <<fs, undo_batches, undo_operations, committed, clock, tree, hist>>

CollectOperations ==
    /\ call' = [op |-> "collect_operations",
                result |-> renamer_collect_operations(tree, Base)]
    /\ UNCHANGED <<fs, undo_batches, undo_operations, committed, clock, tree, hist>>

NextValidator == Validate \/ GetValidOperations \/ CollectOperations

SpecValidator == InitValidator /\ [][NextValidator]_vars

----------------------------------------------------------------------------
(* SpecCounts: the three counters on every bounded tree. A node's src and tgt  *)
(* are any strings (models.py 20-21, 37-38), the empty one included.           *)

CNames == {<<>>, nA, nT}

CFiles == {FileNode(s, t) : s \in CNames, t \in CNames}

CDirs == {<<s, t>> : s \in CNames, t \in CNames}

\* A directory that is a no-op over a pending and a ready file
ScenarioCountTree == <<DirNode(nD, nD, <<FileNode(nA, <<>>), FileNode(nB, nT)>>)>>

CTrees == ForestsUpTo(CFiles, CDirs, MaxTreeNodes) \cup {ScenarioCountTree}

InitCounts ==
    /\ fs = <<>>
    /\ undo_batches = {}
    /\ undo_operations = <<>>
    /\ clock = 0
    /\ hist = <<>>
    /\ tree \in CTrees
    /\ call = [op |-> "input"]
    /\ committed = Ledger(undo_batches, undo_operations)

Count ==
    /\ call.op = "input"
    /\ call' = [op |-> "count", pending |-> count_pending_root(tree),
                total |-> count_total_root(tree), ready |-> count_ready_root(tree)]
    /\ UNCHANGED <<fs, undo_batches, undo_operations, committed, clock, tree, hist>>

NextCounts == Count

SpecCounts == InitCounts /\ [][NextCounts]_vars

----------------------------------------------------------------------------
(* Bounds and input pools of the pure-function specification *)

MaxNameLen == 4

Chars == ILLEGAL_CHARS \cup {".", "a"}

InputNames == SeqsUpTo(Chars, MaxNameLen)

----------------------------------------------------------------------------
(* SpecNames: sanitize_filename applied to every bounded name, then to its result *)

InitNames ==
    /\ fs = <<>>
    /\ undo_batches = {}
    /\ undo_operations = <<>>
    /\ clock = 0
    /\ tree = <<>>
    /\ hist = <<>>
    /\ \E n \in InputNames, d \in BOOLEAN :
          call = [op |-> "input", name |-> n, is_dir |-> d]
    /\ committed = Ledger(undo_batches, undo_operations)

Sanitize ==
    /\ call.op = "input"
    /\ call' = [op |-> "sanitize_filename", name |-> call.name, is_dir |-> call.is_dir,
                result |-> sanitize_filename(call.name, call.is_dir)]
    /\ UNCHANGED <<fs, undo_batches, undo_operations, committed, clock, tree, hist>>

SanitizeAgain ==
    /\ call.op = "sanitize_filename"
    /\ call' = [op |-> "sanitize_filename_again", name |-> call.name, is_dir |-> call.is_dir,
                first |-> call.result,
                result |-> sanitize_filename(call.result.name, call.is_dir)]
    /\ UNCHANGED <<fs, undo_batches, undo_operations, committed, clock, tree, hist>>

NextNames == Sanitize \/ SanitizeAgain

SpecNames == InitNames /\ [][NextNames]_vars

----------------------------------------------------------------------------
(* Spec: the renamer and the ledger at work on one directory *)

\* The batches recorded in all, the readings of the clock, the changes made to the
\* directory from outside, and the limits handed to get_history and clear_history
MaxBatches == 1
MaxClock == 0
MaxExternal == 1
MaxLimit == 1

\* The values uuid4()[:8] takes
BatchIds == {"id1", "id2"}

nNE == <<"n", "/", "e">>

\* The trees handed to rename_batch
RTrees ==
    { <<FileNode(nA, nT), FileNode(nB, nT)>>,
      <<DirNode(nD, nE, <<FileNode(nA, nT)>>)>> }

\* The operation lists handed to record directly
ROperations ==
    { <<>>, <<RenameOperation(Base \o <<nA>>, Base \o <<nT>>)>> }

\* The entries created or removed from outside
ExternalPaths == {Base \o <<nT>>}

\* The values uuid4()[:8] can take in a call of rename_batch: record draws one only
\* when it is called
Uuids(dry_run, undo_manager) ==
    IF dry_run \/ ~undo_manager THEN {"id1"} ELSE BatchIds

\* The values datetime.now() can take in a call of rename_batch: the clock does not
\* run backwards
Nows(dry_run, undo_manager) ==
    IF dry_run \/ ~undo_manager THEN {clock} ELSE clock..MaxClock

Init ==
    /\ fs = FsOf(VSources)
    /\ undo_batches = {}
    /\ undo_operations = <<>>
    /\ clock = 0
    /\ tree = <<>>
    /\ call = [op |-> "init"]
    /\ hist = [recorded |-> 0, externals |-> 0]
    /\ committed = Ledger(undo_batches, undo_operations)

RenameBatch ==
    \E rename_json \in RTrees, dry_run \in BOOLEAN, undo_manager \in BOOLEAN :
      \E batch_id \in Uuids(dry_run, undo_manager), now \in Nows(dry_run, undo_manager) :
        /\ dry_run \/ ~undo_manager \/ hist.recorded < MaxBatches
        /\ \E r \in {rename_batch(fs, undo_batches, undo_operations, undo_manager, batch_id,
                                    now, rename_json, Base, dry_run)} :
               /\ fs' = r.fs
               /\ undo_batches' = r.undo_batches
               /\ undo_operations' = r.undo_operations
               /\ committed' = IF r.raised = "" /\ r.result.operation_id # ""
                               THEN Ledger(r.undo_batches, r.undo_operations)
                               ELSE committed
               /\ tree' = rename_json
               /\ call' = [op |-> "rename_batch", dry_run |-> dry_run,
                           undo_manager |-> undo_manager, raised |-> r.raised,
                           result |-> r.result]
               /\ hist' = IF r.result.operation_id # ""
                          THEN [hist EXCEPT !.recorded = @ + 1]
                          ELSE hist
               /\ clock' = IF r.result.operation_id # "" THEN now ELSE clock

Record ==
    \E operations \in ROperations, batch_id \in BatchIds, now \in clock..MaxClock :
        /\ hist.recorded < MaxBatches
        /\ operations = <<>> => batch_id = "id1" /\ now = clock
        /\ \E r \in {record(undo_batches, undo_operations, batch_id, now, operations,
                               <<"batch", Len(operations)>>)} :
               /\ undo_batches' = r.undo_batches
               /\ undo_operations' = r.undo_operations
               /\ committed' = IF r.raised = "" /\ r.id # ""
                               THEN Ledger(r.undo_batches, r.undo_operations)
                               ELSE committed
               /\ call' = [op |-> "record", raised |-> r.raised, result |-> r.id]
               /\ hist' = IF r.id # "" THEN [hist EXCEPT !.recorded = @ + 1] ELSE hist
               /\ clock' = IF r.id # "" THEN now ELSE clock
        /\ tree' = <<>>
        /\ UNCHANGED fs

Undo ==
    \E batch_id \in BatchIds :
        \E r \in {undo(fs, undo_batches, undo_operations, batch_id)} :
            /\ fs' = r.fs
            /\ undo_batches' = r.undo_batches
            /\ committed' = IF r.row = "active"
                            THEN Ledger(r.undo_batches, undo_operations)
                            ELSE committed
            /\ call' = [op |-> "undo", batch_id |-> batch_id, row |-> r.row,
                        result |-> r.result]
            /\ tree' = <<>>
            /\ UNCHANGED <<undo_operations, clock, hist>>

UndoLatest ==
    \E row \in IF LatestNotUndone(undo_batches) = {} THEN {""}
               ELSE LatestNotUndone(undo_batches) :
        \E r \in {undo_latest(fs, undo_batches, undo_operations, row)} :
            /\ fs' = r.fs
            /\ undo_batches' = r.undo_batches
            /\ committed' = IF r.row = "active"
                            THEN Ledger(r.undo_batches, undo_operations)
                            ELSE committed
            /\ call' = [op |-> "undo_latest", batch_id |-> row, row |-> r.row,
                        result |-> r.result]
            /\ tree' = <<>>
            /\ UNCHANGED <<undo_operations, clock, hist>>

GetHistory ==
    \E limit \in 0..MaxLimit, ordered \in ByTimestampDesc(undo_batches) :
        /\ call' = [op |-> "get_history", limit |-> limit,
                    result |-> get_history(undo_operations, ordered, limit)]
        /\ tree' = <<>>
        /\ UNCHANGED <<fs, undo_batches, undo_operations, committed, clock, hist>>

ClearHistory ==
    \E keep_recent \in 0..MaxLimit, ordered \in ByTimestampDesc(undo_batches) :
        \E r \in {clear_history(undo_batches, undo_operations, ordered, keep_recent)} :
            /\ undo_batches' = r.undo_batches
            /\ undo_operations' = r.undo_operations
            /\ committed' = Ledger(r.undo_batches, r.undo_operations)
            /\ call' = [op |-> "clear_history", keep_recent |-> keep_recent,
                        result |-> r.deleted]
            /\ tree' = <<>>
            /\ UNCHANGED <<fs, clock, hist>>

\* Someone else creates a file in the directory or removes an entry
ExternalChange ==
    /\ hist.externals < MaxExternal
    /\ \E path \in ExternalPaths :
          fs' = IF Exists(fs, path)
                THEN [p \in DOMAIN fs \ Under(fs, path) |-> fs[p]]
                ELSE (path :> [kind |-> "file", id |-> 9]) @@ fs
    /\ hist' = [hist EXCEPT !.externals = @ + 1]
    /\ call' = [op |-> "external"]
    /\ tree' = <<>>
    /\ UNCHANGED <<undo_batches, undo_operations, committed, clock>>

Next ==
    \/ RenameBatch
    \/ Record
    \/ Undo
    \/ UndoLatest
    \/ GetHistory
    \/ ClearHistory
    \/ ExternalChange

Spec == Init /\ [][Next]_vars

----------------------------------------------------------------------------
(* SpecRoundTrip: one rename_batch with a ledger on every bounded tree and        *)
(* filesystem, then the undo of the batch it recorded                             *)

TFiles == {FileNode(s, t) : s \in {nA, nB}, t \in {<<>>, nT, nTLt, nB}}

TDirs == {<<nD, <<>>>>, <<nD, nE>>, <<nD, nNE>>}

TTrees == ForestsUpTo(TFiles, TDirs, MaxTreeNodes)

InitRoundTrip ==
    /\ fs \in VFilesystems
    /\ tree \in TTrees
    /\ undo_batches = {}
    /\ undo_operations = <<>>
    /\ clock = 0
    /\ call = [op |-> "input"]
    /\ hist = [before |-> fs]
    /\ committed = Ledger(undo_batches, undo_operations)

RoundTripRename ==
    /\ call.op = "input"
    /\ \E batch_id \in BatchIds :
         \E r \in {rename_batch(fs, undo_batches, undo_operations, TRUE, batch_id, clock,
                                tree, Base, FALSE)} :
            /\ fs' = r.fs
            /\ undo_batches' = r.undo_batches
            /\ undo_operations' = r.undo_operations
            /\ committed' = IF r.raised = "" /\ r.result.operation_id # ""
                            THEN Ledger(r.undo_batches, r.undo_operations)
                            ELSE committed
            /\ call' = [op |-> "rename_batch", raised |-> r.raised, result |-> r.result]
    /\ UNCHANGED <<clock, tree, hist>>

RoundTripUndo ==
    /\ call.op = "rename_batch"
    /\ call.result.operation_id # ""
    /\ \E r \in {undo(fs, undo_batches, undo_operations, call.result.operation_id)} :
          /\ fs' = r.fs
          /\ undo_batches' = r.undo_batches
          /\ committed' = IF r.row = "active"
                          THEN Ledger(r.undo_batches, undo_operations)
                          ELSE committed
          /\ call' = [op |-> "undo", batch_id |-> call.result.operation_id, row |-> r.row,
                      result |-> r.result]
    /\ UNCHANGED <<undo_operations, clock, tree, hist>>

NextRoundTrip == RoundTripRename \/ RoundTripUndo

SpecRoundTrip == InitRoundTrip /\ [][NextRoundTrip]_vars

----------------------------------------------------------------------------
(* SpecLatest: undo_latest, get_history and clear_history on a ledger that      *)
(* starts with two batches, recorded one after the                              *)
(* other at any two readings of the clock (datetime.now() is local time and can *)
(* step back), each undone or not, on filesystems with or without their new     *)
(* paths.                                                                       *)

LatestTimestamps == 0..(MaxClock + 1)

\* The ledger after record(a -> t) at t1 as id1 and record(b -> e) at t2 as id2
TwoBatches(t1, t2) ==
    Let(record({}, <<>>, "id1", t1,
               <<RenameOperation(Base \o <<nA>>, Base \o <<nT>>)>>, <<"batch", 1>>),
        LAMBDA r1 :
            record(r1.undo_batches, r1.undo_operations, "id2", t2,
                   <<RenameOperation(Base \o <<nB>>, Base \o <<nE>>)>>, <<"batch", 1>>))

LatestFilesystems ==
    {FsOf({Entry(Base, "dir", 1)} \cup files) :
        files \in SUBSET {Entry(Base \o <<nT>>, "file", 2), Entry(Base \o <<nE>>, "file", 3)}}

InitLatest ==
    /\ fs \in LatestFilesystems
    /\ \E t1 \in LatestTimestamps, t2 \in LatestTimestamps, done \in SUBSET {"id1", "id2"} :
          /\ undo_batches = {[b EXCEPT !.undone = (b.id \in done)] :
                                 b \in TwoBatches(t1, t2).undo_batches}
          /\ undo_operations = TwoBatches(t1, t2).undo_operations
    /\ clock = 0
    /\ tree = <<>>
    /\ call = [op |-> "input"]
    /\ hist = [recorded |-> 2, externals |-> 0]
    /\ committed = Ledger(undo_batches, undo_operations)

NextLatest == UndoLatest \/ GetHistory \/ ClearHistory

SpecLatest == InitLatest /\ [][NextLatest]_vars

----------------------------------------------------------------------------
(* SpecBatch: one call of rename_batch, as a dry run or not, with or without an *)
(* undo_manager, on every bounded tree, or one call of record; the ledger is    *)
(* empty or holds a batch recorded earlier. hist keeps the filesystem and the   *)
(* ledger before the call.                                                      *)

nDA == <<"d", "/", "a">>

\* a -> t and a -> t< (the second finds its source gone), b -> t (a duplicate
\* target), b -> d/a (a target that exists when the move is due), a -> t.< (the
\* validator raises), a pending file
BFiles == {FileNode(nA, nT), FileNode(nA, nTLt), FileNode(nB, nT), FileNode(nB, nDA),
           FileNode(nA, nExtIllegal), FileNode(nB, <<>>)}

BDirs == {<<nD, <<>>>>, <<nD, nE>>}

BTrees == ForestsUpTo(BFiles, BDirs, MaxTreeNodes)

BFilesystems == {FsOf(VSources), FsOf(VSources \cup {Entry(Base \o <<nT>>, "file", 6)})}

\* The ledger after an earlier record of one operation under the id id1
PriorLedger ==
    record({}, <<>>, "id1", 0,
           <<RenameOperation(Base \o <<nNew>>, Base \o <<nB>>)>>, <<"batch", 1>>)

InitBatch ==
    /\ fs \in BFilesystems
    /\ tree \in BTrees
    /\ \E l \in {[undo_batches |-> {}, undo_operations |-> <<>>],
                  [undo_batches |-> PriorLedger.undo_batches,
                   undo_operations |-> PriorLedger.undo_operations]} :
          /\ undo_batches = l.undo_batches
          /\ undo_operations = l.undo_operations
          /\ hist = [before |-> fs, batches |-> l.undo_batches,
                     rows |-> l.undo_operations]
    /\ clock = 0
    /\ call = [op |-> "input"]
    /\ committed = Ledger(undo_batches, undo_operations)

Batch ==
    /\ call.op = "input"
    /\ \E dry_run \in BOOLEAN, undo_manager \in BOOLEAN :
         \E batch_id \in Uuids(dry_run, undo_manager) :
           \E r \in {rename_batch(fs, undo_batches, undo_operations, undo_manager,
                                    batch_id, clock, tree, Base, dry_run)} :
              /\ fs' = r.fs
              /\ undo_batches' = r.undo_batches
              /\ undo_operations' = r.undo_operations
              /\ committed' = IF r.raised = "" /\ r.result.operation_id # ""
                              THEN Ledger(r.undo_batches, r.undo_operations)
                              ELSE committed
              /\ call' = [op |-> "rename_batch", dry_run |-> dry_run,
                          undo_manager |-> undo_manager, raised |-> r.raised,
                          result |-> r.result]
    /\ UNCHANGED <<clock, tree, hist>>

\* The operation lists handed to record directly: none, one, two operations
RecordLists ==
    ROperations
    \cup { <<RenameOperation(Base \o <<nD, nA>>, Base \o <<nD, nT>>),
             RenameOperation(Base \o <<nD>>, Base \o <<nE>>)>> }

\* One call of record on the ledger
RecordDirect ==
    /\ call.op = "input"
    /\ \E operations \in RecordLists, batch_id \in BatchIds :
         /\ operations = <<>> => batch_id = "id1"
         /\ \E r \in {record(undo_batches, undo_operations, batch_id, clock, operations,
                                <<"batch", Len(operations)>>)} :
               /\ undo_batches' = r.undo_batches
               /\ undo_operations' = r.undo_operations
               /\ committed' = IF r.raised = "" /\ r.id # ""
                               THEN Ledger(r.undo_batches, r.undo_operations)
                               ELSE committed
               /\ call' = [op |-> "record", operations |-> operations,
                           raised |-> r.raised, result |-> r.id]
    /\ UNCHANGED <<fs, clock, tree, hist>>

NextBatch == Batch \/ RecordDirect

SpecBatch == InitBatch /\ [][NextBatch]_vars

----------------------------------------------------------------------------
(* SpecTransaction: calls of record, some of them with a path that sqlite3      *)
(* cannot store, and the ledger calls that follow on the same connection.       *)
(* hist.given keeps, for every batch id, the number of operations handed to the *)
(* call of record that inserted its row.                                        *)

\* The calls of record in all
MaxRecords == 2

\* A file whose name is not UTF-8
nBSurrogate == <<"b", Surrogate>>

\* One operation; one operation and then one that cannot be stored; one that
\* cannot be stored
TransactionLists ==
    { <<RenameOperation(Base \o <<nA>>, Base \o <<nT>>)>>,
      <<RenameOperation(Base \o <<nA>>, Base \o <<nT>>),
        RenameOperation(Base \o <<nB>>, Base \o <<nE>>)>>,
      <<RenameOperation(Base \o <<nA>>, Base \o <<nT>>),
        RenameOperation(Base \o <<nBSurrogate>>, Base \o <<nE>>)>>,
      <<RenameOperation(Base \o <<nBSurrogate>>, Base \o <<nE>>)>> }

InitTransaction ==
    /\ fs \in BFilesystems
    /\ tree = <<>>
    /\ \E l \in {Ledger({}, <<>>),
                  Ledger(PriorLedger.undo_batches, PriorLedger.undo_operations)} :
          /\ undo_batches = l.undo_batches
          /\ undo_operations = l.undo_operations
          /\ hist = [recorded |-> 0, externals |-> 0,
                     given |-> [id \in BatchIds |->
                                   Len(OperationsOf(l.undo_operations, id))]]
    /\ clock = 0
    /\ call = [op |-> "input"]
    /\ committed = Ledger(undo_batches, undo_operations)

RecordOperations ==
    /\ hist.recorded < MaxRecords
    /\ \E operations \in TransactionLists, batch_id \in BatchIds :
         \E r \in {record(undo_batches, undo_operations, batch_id, clock, operations,
                          <<"batch", Len(operations)>>)} :
            /\ undo_batches' = r.undo_batches
            /\ undo_operations' = r.undo_operations
            /\ committed' = IF r.raised = "" /\ r.id # ""
                            THEN Ledger(r.undo_batches, r.undo_operations)
                            ELSE committed
            /\ call' = [op |-> "record", operations |-> operations,
                        raised |-> r.raised, result |-> r.id]
            /\ hist' = [hist EXCEPT !.recorded = @ + 1,
                                    !.given = IF r.raised = "IntegrityError" THEN @
                                              ELSE [@ EXCEPT ![batch_id] = Len(operations)]]
    /\ UNCHANGED <<fs, clock, tree>>

NextTransaction == RecordOperations \/ Undo \/ UndoLatest \/ GetHistory \/ ClearHistory

SpecTransaction == InitTransaction /\ [][NextTransaction]_vars

----------------------------------------------------------------------------
(* SpecUndo: undo, undo_latest and get_history on a ledger with one batch of two *)
(* operations, a -> t and b -> e, on filesystems in which the new paths exist or *)
(* not and in which the original paths may be occupied: a file a, a directory b, *)
(* a directory b holding an entry e.                                             *)

\* The ledger after record([a -> t, b -> e]) under the id id1
UndoLedger ==
    record({}, <<>>, "id1", 0,
           <<RenameOperation(Base \o <<nA>>, Base \o <<nT>>),
             RenameOperation(Base \o <<nB>>, Base \o <<nE>>)>>, <<"batch", 2>>)

UndoFilesystems ==
    {FsOf({Entry(Base, "dir", 1)} \cup files \cup blocker \cup occupant) :
        files \in SUBSET {Entry(Base \o <<nT>>, "file", 2), Entry(Base \o <<nE>>, "file", 3)},
        blocker \in {{}, {Entry(Base \o <<nB>>, "dir", 4)},
                         {Entry(Base \o <<nB>>, "dir", 4),
                          Entry(Base \o <<nB, nE>>, "file", 5)}},
        occupant \in {{}, {Entry(Base \o <<nA>>, "file", 6)}}}

InitUndo ==
    /\ fs \in UndoFilesystems
    /\ \E done \in BOOLEAN :
          undo_batches = {[b EXCEPT !.undone = done] : b \in UndoLedger.undo_batches}
    /\ undo_operations = UndoLedger.undo_operations
    /\ clock = 0
    /\ tree = <<>>
    /\ call = [op |-> "input"]
    /\ hist = [recorded |-> 1, externals |-> 0]
    /\ committed = Ledger(undo_batches, undo_operations)

NextUndo == Undo \/ UndoLatest \/ GetHistory

SpecUndo == InitUndo /\ [][NextUndo]_vars

----------------------------------------------------------------------------
(* SpecSession: rename_batch calls that are not dry runs, all on one ledger,     *)
(* followed by undo_latest calls, with nothing else touching the directory.      *)
(* hist keeps the filesystem before the first call, the ids rename_batch         *)
(* returned, in order, the batches undo_latest picked, in order ("" for none),   *)
(* and whether every rename_batch returned a result without a failed operation.  *)

\* The rename_batch calls of a session
MaxSession == 2

\* a -> t; t -> e, which renames what a -> t made; a directory into a directory
\* that does not exist yet; two files at once
STrees ==
    { <<FileNode(nA, nT)>>, <<FileNode(nT, nE)>>, <<DirNode(nD, nNE, <<>>)>>,
      <<FileNode(nA, nT), FileNode(nB, nE)>> }

InitSession ==
    /\ fs = FsOf(VSources)
    /\ undo_batches = {}
    /\ undo_operations = <<>>
    /\ clock = 0
    /\ tree = <<>>
    /\ call = [op |-> "input"]
    /\ hist = [before |-> fs, recorded |-> <<>>, undone |-> <<>>, successful |-> TRUE,
               renames |-> 0]
    /\ committed = Ledger(undo_batches, undo_operations)

\* datetime.now() in a later call reads the same clock value or a later one
SessionRename ==
    /\ hist.undone = <<>>
    /\ hist.renames < MaxSession
    /\ \E rename_json \in STrees, batch_id \in BatchIds, now \in clock..(clock + 1) :
         \E r \in {rename_batch(fs, undo_batches, undo_operations, TRUE, batch_id, now,
                                rename_json, Base, FALSE)} :
            /\ fs' = r.fs
            /\ undo_batches' = r.undo_batches
            /\ undo_operations' = r.undo_operations
            /\ committed' = IF r.raised = "" /\ r.result.operation_id # ""
                            THEN Ledger(r.undo_batches, r.undo_operations)
                            ELSE committed
            /\ tree' = rename_json
            /\ clock' = IF r.result.operation_id # "" THEN now ELSE clock
            /\ call' = [op |-> "rename_batch", dry_run |-> FALSE, undo_manager |-> TRUE,
                        raised |-> r.raised, result |-> r.result]
            /\ hist' = [hist EXCEPT
                           !.renames = @ + 1,
                           !.recorded = IF r.result.operation_id # ""
                                        THEN Append(@, r.result.operation_id) ELSE @,
                           !.successful = @ /\ r.raised = "" /\ r.result.failed_count = 0]

SessionUndoLatest ==
    /\ hist.renames > 0
    /\ Len(hist.undone) <= Len(hist.recorded)
    /\ \E row \in IF LatestNotUndone(undo_batches) = {} THEN {""}
                   ELSE LatestNotUndone(undo_batches) :
         \E r \in {undo_latest(fs, undo_batches, undo_operations, row)} :
            /\ fs' = r.fs
            /\ undo_batches' = r.undo_batches
            /\ committed' = IF r.row = "active"
                            THEN Ledger(r.undo_batches, undo_operations)
                            ELSE committed
            /\ call' = [op |-> "undo_latest", batch_id |-> row, row |-> r.row,
                        result |-> r.result]
            /\ hist' = [hist EXCEPT !.undone = Append(@, row)]
    /\ UNCHANGED <<undo_operations, clock, tree>>

NextSession == SessionRename \/ SessionUndoLatest

SpecSession == InitSession /\ [][NextSession]_vars

----------------------------------------------------------------------------
(* Tree positions, for stating the claims: a position is the sequence of child  *)
(* indices leading to a node.                                                    *)

RECURSIVE PositionsOf(_)
PositionsOf(nodes) ==
    UNION {{<<i>>} \cup (IF nodes[i].kind = "dir"
                         THEN {<<i>> \o r : r \in PositionsOf(nodes[i].children)}
                         ELSE {}) : i \in 1..Len(nodes)}

RECURSIVE NodeAt(_, _)
NodeAt(nodes, pos) ==
    IF Len(pos) = 1 THEN nodes[pos[1]] ELSE NodeAt(nodes[pos[1]].children, Tail(pos))

\* The source names of the proper ancestors of the node at pos, outermost first
RECURSIVE AncestorSrcs(_, _)
AncestorSrcs(nodes, pos) ==
    IF Len(pos) = 1 THEN <<>>
    ELSE <<nodes[pos[1]].src_dir>> \o AncestorSrcs(nodes[pos[1]].children, Tail(pos))

ReadyPositions(t) == {p \in PositionsOf(t) : is_ready(NodeAt(t, p))}

StrictlyBelow(q, p) == Len(p) < Len(q) /\ SubSeq(q, 1, Len(p)) = p

\* The directory the node at p lies in: the base, then the ancestors' source names
DirOf(t, p) == Base \o AncestorSrcs(t, p)

SrcPathOf(t, p) == PathJoin(DirOf(t, p), SrcOf(NodeAt(t, p)))

\* The operation of the node at p: its source path and its target path as written
OpOf(t, p) == <<SrcPathOf(t, p), PathJoin(DirOf(t, p), TgtOf(NodeAt(t, p)))>>

\* The target path validate resolves for the node at p (with the sanitized name)
ResolvedTgtOf(t, p) ==
    LET n == NodeAt(t, p)
    IN  PathJoin(DirOf(t, p), validate_target_name(TgtOf(n), SrcOf(n), n.kind = "dir").name)

IndexOf(ops, op) == CHOOSE i \in 1..Len(ops) : ops[i] = op

Returned(op) == call.op = op /\ call.result.raised = ""

----------------------------------------------------------------------------
(* Claims *)

\* C1: the operation list returned by get_valid_operations, with smart_dedup on or
\* off, never holds two operations with the same target path.
C1_DistinctTargets ==
    Returned("get_valid_operations") =>
        LET ops == call.result.operations
        IN  \A i, j \in 1..Len(ops) : i # j => ops[i][2] # ops[j][2]

\* Two ready nodes with the same target path, neither held back as a conflict, and
\* one operation for that target in the list.
C1_Witness ==
    /\ Returned("get_valid_operations")
    /\ \E p, q \in ReadyPositions(tree) :
          /\ p # q
          /\ OpOf(tree, p)[2] = OpOf(tree, q)[2]
          /\ OpOf(tree, p) \in Range(call.result.operations)
          /\ \A i \in 1..Len(call.result.conflicts) :
                call.result.conflicts[i].src_path # SrcPathOf(tree, q)

\* C2: when a directory node's own rename and the rename of one of its descendants
\* both appear in the list of get_valid_operations or of FileRenamer's
\* collect_operations, the descendant's operation comes first.  (In the validator's
\* list an operation is the node's own when no other node has the same one.)
C2_ChildrenBeforeParent ==
    /\ Returned("get_valid_operations") =>
          LET ops == call.result.operations
          IN  \A p, q \in ReadyPositions(tree) :
                 ( /\ StrictlyBelow(q, p)
                   /\ \A r \in ReadyPositions(tree) : OpOf(tree, r) = OpOf(tree, p) => r = p
                   /\ OpOf(tree, p) \in Range(ops)
                   /\ OpOf(tree, q) \in Range(ops) )
                 => IndexOf(ops, OpOf(tree, q)) < IndexOf(ops, OpOf(tree, p))
    /\ call.op = "collect_operations" =>
          LET ops == call.result
          IN  \A p, q \in ReadyPositions(tree) :
                 StrictlyBelow(q, p) =>
                    \E i, j \in 1..Len(ops) :
                       i < j /\ ops[i] = OpOf(tree, q) /\ ops[j] = OpOf(tree, p)

\* A ready directory with a ready descendant, both in the validator's list.
C2_Witness ==
    /\ Returned("get_valid_operations")
    /\ \E p, q \in ReadyPositions(tree) :
          /\ StrictlyBelow(q, p)
          /\ OpOf(tree, p) \in Range(call.result.operations)
          /\ OpOf(tree, q) \in Range(call.result.operations)

\* C3: when rename_batch (not a dry run, with a ledger) returned an operation id and
\* nothing else changed the filesystem, undo of that id leaves the filesystem
\* exactly as it was before rename_batch.
C3_RoundTripRestores ==
    call.op = "undo" => fs = hist.before

\* C4: undo with the id of a batch that is marked undone returns success_count = 0
\* and a non-empty failed_items, and changes neither the filesystem nor the ledger.
\* (undo has no statement that raises on this path.)
C4_UndoneBatchRefused ==
    [][(call'.op = "undo" /\ \E b \in undo_batches : b.id = call'.batch_id /\ b.undone)
         => /\ call'.result.success_count = 0
            /\ call'.result.failed_items # <<>>
            /\ UNCHANGED <<fs, undo_batches, undo_operations>>]_vars

\* undo was called on a batch already marked undone, one of whose new paths exists.
C4_Witness ==
    /\ call.op = "undo"
    /\ call.row = "undone"
    /\ \E b \in undo_batches : b.id = call.batch_id /\ b.undone
    /\ \E i \in 1..Len(undo_operations) :
          /\ undo_operations[i].batch_id = call.batch_id
          /\ Exists(fs, PathOfStr(undo_operations[i].new_path))

\* C5: undo with a batch id that is not in the ledger returns a zero-success result
\* with the reason in failed_items, and changes neither the filesystem nor the
\* ledger.  (undo has no statement that raises on this path.)
C5_UnknownBatchRefused ==
    [][(call'.op = "undo" /\ ~\E b \in undo_batches : b.id = call'.batch_id)
         => /\ call'.result.success_count = 0
            /\ call'.result.failed_count = 0
            /\ Len(call'.result.failed_items) = 1
            /\ UNCHANGED <<fs, undo_batches, undo_operations>>]_vars

\* undo was called with an id the ledger, which holds another batch, does not have.
C5_Witness ==
    /\ call.op = "undo"
    /\ call.row = "missing"
    /\ undo_batches # {}
    /\ \A b \in undo_batches : b.id # call.batch_id

\* The resolved target paths more than one ready node maps to, and their sources
DupTargets(t) ==
    {ResolvedTgtOf(t, p) : p \in {x \in ReadyPositions(t) :
        \E y \in ReadyPositions(t) : y # x /\ ResolvedTgtOf(t, y) = ResolvedTgtOf(t, x)}}

Contributors(t, T) == {p \in ReadyPositions(t) : ResolvedTgtOf(t, p) = T}

\* The contributing source path that is smallest as a string
SmallestSrc(t, T) ==
    LET srcs == {SrcPathOf(t, p) : p \in Contributors(t, T)}
    IN  CHOOSE m \in srcs : \A x \in srcs : ~StrLess(StrOfPath(x), StrOfPath(m))

HasConflict(conflicts, type, src_path, tgt_path) ==
    \E i \in 1..Len(conflicts) :
        /\ conflicts[i].type = type
        /\ conflicts[i].src_path = src_path
        /\ conflicts[i].tgt_path = tgt_path

\* C6: with smart dedup on, for every target path more than one ready node maps to,
\* the source that is smallest as a string is taken off the conflict list and gets
\* the one operation kept for that target (when it has no other conflict); every
\* other contributing source stays in the conflict list and yields no operation.
C6_SmartDedupKeepsSmallest ==
    (Returned("get_valid_operations") /\ call.smart_dedup) =>
        LET ops == call.result.operations
            conflicts == call.result.conflicts
        IN  \A T \in DupTargets(tree) :
               LET m == SmallestSrc(tree, T)
               IN  /\ ~HasConflict(conflicts, "DUPLICATE_TARGET", m, T)
                   /\ \A p \in Contributors(tree, T) :
                         SrcPathOf(tree, p) # m =>
                            /\ HasConflict(conflicts, "DUPLICATE_TARGET", SrcPathOf(tree, p), T)
                            /\ OpOf(tree, p) \notin Range(ops)
                   /\ ~HasConflict(conflicts, "TARGET_EXISTS", m, T) =>
                         \E p \in Contributors(tree, T) :
                            SrcPathOf(tree, p) = m /\ OpOf(tree, p) \in Range(ops)
                   /\ Cardinality({i \in 1..Len(ops) :
                         \E p \in Contributors(tree, T) : ops[i] = OpOf(tree, p)}) <= 1

\* The ready file nodes whose target name has a suffix after a known extension
SuffixedPositions(t) ==
    {p \in ReadyPositions(t) :
        /\ NodeAt(t, p).kind = "file"
        /\ FindAll(NodeAt(t, p).tgt) = <<>>
        /\ validate_extension_position(NodeAt(t, p).tgt) # <<>>}

\* C7: for a ready file node whose target name has a suffix after a known extension
\* (notes.txt_old), validate returns an error conflict for that node, without
\* raising, and get_valid_operations returns no operation for it.
C7_SuffixAfterExtensionIsConflict ==
    \A p \in SuffixedPositions(tree) :
        /\ call.op = "validate" =>
              /\ call.result.raised = ""
              /\ \E i \in 1..Len(call.result.conflicts) :
                    /\ call.result.conflicts[i].src_path = SrcPathOf(tree, p)
                    /\ call.result.conflicts[i].type \notin {"TARGET_EXISTS", "DUPLICATE_TARGET"}
        /\ call.op = "get_valid_operations" =>
              /\ call.result.raised = ""
              /\ OpOf(tree, p) \notin Range(call.result.operations)

\* The ready file nodes whose target name has an illegal character from its last "."
IllegalExtPositions(t) ==
    {p \in ReadyPositions(t) :
        LET n == NodeAt(t, p)
        IN  /\ n.kind = "file"
            /\ "." \in Range(n.tgt)
            /\ FindAll(SubSeq(n.tgt, RFindDot(n.tgt), Len(n.tgt))) # <<>>}

\* C8: for a ready file node whose target name has an illegal character in its
\* extension, validate emits an IllegalCharacters error conflict for that node
\* without raising, sanitization leaves the name unchanged, and the node yields no
\* operation.
C8_IllegalExtensionIsConflict ==
    \A p \in IllegalExtPositions(tree) :
        /\ sanitize_filename(NodeAt(tree, p).tgt, FALSE).name = NodeAt(tree, p).tgt
        /\ call.op = "validate" =>
              /\ call.result.raised = ""
              /\ HasConflict(call.result.conflicts, "ILLEGAL_CHARS", SrcPathOf(tree, p),
                             OpOf(tree, p)[2])
        /\ call.op = "get_valid_operations" =>
              /\ call.result.raised = ""
              /\ OpOf(tree, p) \notin Range(call.result.operations)

\* The part of a name sanitize_filename treats as the base name: up to the last "."
\* of a file name, the whole name of a directory or of a name without "."
BaseLen(name, is_dir) ==
    IF ~is_dir /\ "." \in Range(name) THEN RFindDot(name) - 1 ELSE Len(name)

IllegalOnlyInBase(name, is_dir) ==
    /\ \E i \in 1..Len(name) : name[i] \in ILLEGAL_CHARS
    /\ \A i \in 1..Len(name) : name[i] \in ILLEGAL_CHARS => i <= BaseLen(name, is_dir)

FullWidth == {"U+FF0F", "U+FF3C", "U+FF1A", "U+FF0A", "U+FF1F", "U+FF02", "U+FF1C",
              "U+FF1E", "U+FF5C"}

\* C9: sanitize_filename on a name whose illegal characters all lie in the base-name
\* portion returns the name with each illegal character replaced by its full-width
\* counterpart (same length, the rest unchanged), with one AUTO-FIX note and no
\* ERROR; the result holds no illegal character, and sanitizing it again returns it
\* unchanged with no message.
C9_SanitizeBaseName ==
    (call.op \in {"sanitize_filename", "sanitize_filename_again"}
        /\ IllegalOnlyInBase(call.name, call.is_dir)) =>
        LET first == IF call.op = "sanitize_filename" THEN call.result ELSE call.first
        IN  /\ Len(first.name) = Len(call.name)
            /\ \A i \in 1..Len(call.name) :
                  IF call.name[i] \in ILLEGAL_CHARS
                  THEN first.name[i] = CHAR_REPLACEMENT_MAP[call.name[i]]
                       /\ first.name[i] \in FullWidth
                  ELSE first.name[i] = call.name[i]
            /\ Len(first.warnings) = 1
            /\ first.warnings[1].tag = "[AUTO-FIX]"
            /\ FindAll(first.name) = <<>>
            /\ call.op = "sanitize_filename_again" =>
                  call.result = [name |-> first.name, warnings |-> <<>>]

\* A file name with two different illegal characters before its extension, sanitized
\* twice.
C9_Witness ==
    /\ call.op = "sanitize_filename_again"
    /\ ~call.is_dir
    /\ call.name = <<"<", ":", ".", "a">>
    /\ call.first.name = <<"U+FF1C", "U+FF1A", ".", "a">>

\* C10: every operation's source and target path are the base directory, then the
\* source names of the node's ancestors, then the node's own source or target name;
\* for the ready directory old -> new holding the ready file x.txt -> y.txt the list
\* is exactly [(old/x.txt, old/y.txt), (old, new)].
C10_PathsFromSourceNames ==
    Returned("get_valid_operations") =>
        LET ops == call.result.operations
        IN  /\ \A i \in 1..Len(ops) :
                  \E p \in ReadyPositions(tree) :
                     LET n == NodeAt(tree, p)
                     IN  /\ ops[i][1] = PathJoin(Base \o AncestorSrcs(tree, p), SrcOf(n))
                         /\ ops[i][2] = PathJoin(Base \o AncestorSrcs(tree, p), TgtOf(n))
            /\ tree = ScenarioDirTree =>
                  ops = << <<Base \o <<nOld, nXTxt>>, Base \o <<nOld, nYTxt>>>>,
                           <<Base \o <<nOld>>, Base \o <<nNew>>>> >>

\* The scenario's tree, validated, with its two operations returned.
C10_Witness ==
    /\ Returned("get_valid_operations")
    /\ tree = ScenarioDirTree
    /\ Len(call.result.operations) = 2
    /\ call.result.conflicts = <<>>

\* The nodes of t whose target is empty, whose target is non-empty and differs
\* from the source, and whose target equals the source
PendingNodes(t) == {p \in PositionsOf(t) : TgtOf(NodeAt(t, p)) = <<>>}

ReadyNodes(t) ==
    {p \in PositionsOf(t) : TgtOf(NodeAt(t, p)) # <<>>
                              /\ TgtOf(NodeAt(t, p)) # SrcOf(NodeAt(t, p))}

SameNameNodes(t) == {p \in PositionsOf(t) : TgtOf(NodeAt(t, p)) = SrcOf(NodeAt(t, p))}

\* C12 (as stated): every node is exactly one of pending (target empty), ready
\* (target non-empty and different from the source) or no-op (target equals
\* source), and count_total = count_pending + count_ready + the number of no-op
\* nodes.
C12_PartitionAsStated ==
    call.op = "count"
        => /\ \A p \in PositionsOf(tree) :
                  /\ p \in PendingNodes(tree) \cup ReadyNodes(tree) \cup SameNameNodes(tree)
                  /\ ~(p \in PendingNodes(tree) /\ p \in SameNameNodes(tree))
                  /\ ~(p \in ReadyNodes(tree) /\ p \in SameNameNodes(tree))
                  /\ ~(p \in PendingNodes(tree) /\ p \in ReadyNodes(tree))
           /\ call.total = call.pending + call.ready + Cardinality(SameNameNodes(tree))

\* C12 (amended): every node is exactly one of pending (target empty), ready
\* (target non-empty and different from the source) or no-op (target non-empty
\* and equal to the source); count_pending, count_ready and count_total count
\* the pending nodes, the ready nodes and all nodes, a directory counting itself
\* plus all its descendants, so count_total = count_pending + count_ready + the
\* number of no-op nodes; no node is both pending and ready.
C12_Partition ==
    call.op = "count"
        => LET NoOp == SameNameNodes(tree) \ PendingNodes(tree)
           IN  /\ PositionsOf(tree) = PendingNodes(tree) \cup ReadyNodes(tree) \cup NoOp
               /\ PendingNodes(tree) \cap ReadyNodes(tree) = {}
               /\ PendingNodes(tree) \cap NoOp = {}
               /\ ReadyNodes(tree) \cap NoOp = {}
               /\ call.pending = Cardinality(PendingNodes(tree))
               /\ call.ready = Cardinality(ReadyNodes(tree))
               /\ call.total = Cardinality(PositionsOf(tree))
               /\ call.total = call.pending + call.ready + Cardinality(NoOp)

\* The counters of a no-op directory over a pending and a ready file
C12_Witness ==
    /\ call.op = "count"
    /\ tree = ScenarioCountTree
    /\ call.total = 3 /\ call.pending = 1 /\ call.ready = 1

\* C13: rename_batch with dry_run = true leaves the filesystem and the undo
\* ledger unchanged and returns a result whose operation id is empty, for every
\* tree and filesystem.
C13_DryRunChangesNothing ==
    (call.op = "rename_batch" /\ call.dry_run)
        => /\ fs = hist.before
           /\ undo_batches = hist.batches
           /\ undo_operations = hist.rows
           /\ call.raised = ""
           /\ call.result.operation_id = ""

\* The operations rename_batch executes on the tree, and the filesystem as it is
\* when the i-th of them is due
BatchOperations == get_valid_operations(hist.before, tree, Base, TRUE).operations

RECURSIVE FsBeforeOp(_, _, _)
FsBeforeOp(f, ops, i) ==
    IF i = 1 THEN f
    ELSE Let(FsBeforeOp(f, ops, i - 1),
             LAMBDA g : _rename_single(g, ops[i - 1][1], ops[i - 1][2]).fs)

\* C14: in a rename_batch that is not a dry run, an operation whose source does
\* not exist or whose target exists when it is executed leaves the filesystem as
\* it is and is counted as failed; nothing that existed before the batch is
\* overwritten; the operations after it are still executed and the moves made
\* before it stay (the filesystem after the batch is the one after the last
\* operation, and success_count + failed_count is the number of operations).
C14_FailedOperationMovesNothing ==
    (call.op = "rename_batch" /\ ~call.dry_run /\ call.raised # "AttributeError")
        => \E ops \in {BatchOperations} :
             \E at \in {[i \in 1..(Len(ops) + 1) |-> FsBeforeOp(hist.before, ops, i)]} :
               LET Bad   == {i \in 1..Len(ops) : \/ ~Exists(at[i], ops[i][1])
                                                  \/ Exists(at[i], ops[i][2])}
                   Moved == {i \in 1..Len(ops) : at[i + 1] # at[i]}
               IN  /\ \A i \in Bad : at[i + 1] = at[i]
                   /\ fs = at[Len(ops) + 1]
                   /\ \A q \in DOMAIN hist.before :
                         \E r \in DOMAIN fs : fs[r] = hist.before[q]
                   /\ call.raised = ""
                        => /\ call.result.success_count = Cardinality(Moved)
                           /\ call.result.failed_count = Len(ops) - Cardinality(Moved)
                           /\ Cardinality(Bad) <= call.result.failed_count

\* b -> d/a finds d/a in its way and fails, a -> t after it is carried out
C14_Witness ==
    /\ call.op = "rename_batch" /\ ~call.dry_run /\ call.raised = ""
    /\ tree = <<FileNode(nB, nDA), FileNode(nA, nT)>>
    /\ call.result.failed_count = 1 /\ call.result.success_count = 1
    /\ Exists(fs, Base \o <<nB>>) /\ Exists(fs, Base \o <<nT>>)
    /\ ~Exists(fs, Base \o <<nA>>)

\* The elements of s at the indices in I, in order
RECURSIVE KeepAt(_, _, _)
KeepAt(s, I, i) ==
    IF i > Len(s) THEN <<>>
    ELSE (IF i \in I THEN <<s[i]>> ELSE <<>>) \o KeepAt(s, I, i + 1)

\* The operations of the batch id as the ledger holds them, by sequence number
LedgerOperations(rows, id) ==
    LET r == OperationsOf(rows, id)
    IN  [k \in 1..Len(r) |-> <<PathOfStr(r[k].original_path), PathOfStr(r[k].new_path)>>]

\* C15: a rename_batch that is not a dry run adds exactly one batch to the ledger
\* if and only if at least one operation succeeded and a ledger is attached; the
\* batch holds exactly the successful operations in the order they were
\* executed, and its id is the operation id returned; otherwise the ledger is
\* unchanged and the operation id returned is empty.
C15_OneBatchOfSuccesses ==
    (call.op = "rename_batch" /\ ~call.dry_run)
        => \E ops \in {BatchOperations} :
             \E at \in {[i \in 1..(Len(ops) + 1) |-> FsBeforeOp(hist.before, ops, i)]} :
               LET Succeeded == KeepAt(ops, {i \in 1..Len(ops) : at[i + 1] # at[i]}, 1)
               IN  /\ call.raised = ""
                   /\ IF call.undo_manager /\ Succeeded # <<>>
                      THEN \E b \in undo_batches :
                              /\ b \notin hist.batches
                              /\ b.id \notin {x.id : x \in hist.batches}
                              /\ undo_batches = hist.batches \cup {b}
                              /\ b.id = call.result.operation_id
                              /\ LedgerOperations(undo_operations, b.id) = Succeeded
                              /\ SelectSeq(undo_operations, LAMBDA r : r.batch_id # b.id)
                                    = hist.rows
                      ELSE /\ undo_batches = hist.batches
                           /\ undo_operations = hist.rows
                           /\ call.result.operation_id = ""

\* C16: when undo (directly or through undo_latest) is called on a batch of the
\* ledger that is not marked undone, the batch is marked undone after the call,
\* whatever the number of reversals that failed; and an undo called on a batch
\* that is marked undone leaves the filesystem as it is.
C16_OneUndoAttempt ==
    [][/\ (/\ call'.op \in {"undo", "undo_latest"}
           /\ \E b \in undo_batches : b.id = call'.batch_id /\ ~b.undone)
          => /\ \E b \in undo_batches' : b.id = call'.batch_id /\ b.undone
             /\ call'.row = "active"
       /\ (/\ call'.op \in {"undo", "undo_latest"}
           /\ \E b \in undo_batches : b.id = call'.batch_id /\ b.undone)
          => /\ fs' = fs
             /\ call'.result.success_count = 0]_vars

\* An undo none of whose reversals succeeded has marked its batch undone
C16_Witness ==
    /\ call.op = "undo"
    /\ call.row = "active"
    /\ call.result.success_count = 0
    /\ call.result.failed_count > 0
    /\ \E b \in undo_batches : b.id = call.batch_id /\ b.undone

RowsOfBatch(rows, id) == {rows[i] : i \in {j \in 1..Len(rows) : rows[j].batch_id = id}}

DescendingSeq(rows, id) ==
    CHOOSE s \in [1..Cardinality(RowsOfBatch(rows, id)) -> RowsOfBatch(rows, id)] :
        \A i, j \in DOMAIN s : i < j => s[i].seq_order > s[j].seq_order

AscendingSeq(rows, id) ==
    CHOOSE s \in [1..Cardinality(RowsOfBatch(rows, id)) -> RowsOfBatch(rows, id)] :
        \A i, j \in DOMAIN s : i < j => s[i].seq_order < s[j].seq_order

\* C18: an undo that replays a batch has the effect and the result of reversing
\* its operations one after the other in descending sequence number (the failed
\* items are listed in that order), and get_history lists the operations of each
\* batch in ascending sequence number.
C18_ReverseOrderReplay ==
    [][/\ (call'.op \in {"undo", "undo_latest"} /\ call'.row = "active")
          => \E acc \in {UndoLoop(DescendingSeq(undo_operations, call'.batch_id),
                                   [fs |-> fs, success_count |-> 0, failed_count |-> 0,
                                    failed_items |-> <<>>])} :
                /\ fs' = acc.fs
                /\ call'.result = UndoResult(acc.success_count, acc.failed_count,
                                             acc.failed_items)
       /\ call'.op = "get_history"
          => \A k \in 1..Len(call'.result) :
                \E asc \in {AscendingSeq(undo_operations, call'.result[k].id)} :
                   call'.result[k].operations
                     = [n \in 1..Len(asc) |->
                           RenameOperation(PathOfStr(asc[n].original_path),
                                           PathOfStr(asc[n].new_path))]]_vars

\* The batch d/a -> d/t, d -> e has been undone with both reversals succeeding:
\* e went back to d before d/t went back to d/a
C18_Witness ==
    /\ call.op = "undo"
    /\ call.row = "active"
    /\ call.result.success_count = 2
    /\ Len(OperationsOf(undo_operations, call.batch_id)) = 2
    /\ IsPrefix(PathOfStr(OperationsOf(undo_operations, call.batch_id)[2].original_path),
                PathOfStr(OperationsOf(undo_operations, call.batch_id)[1].original_path))
    /\ Exists(fs, Base \o <<nD, nA>>)

\* C19: undo_latest undoes a batch that is not marked undone and whose timestamp
\* is the greatest among the batches not marked undone, with the effect and the
\* result of undo on that batch; when every batch is marked undone (or there is
\* none) it picks no batch, returns a result with success_count 0 and a reason,
\* and changes neither the filesystem nor the ledger.
C19_LatestNotUndone ==
    [][call'.op = "undo_latest"
         => IF \E b \in undo_batches : ~b.undone
            THEN /\ \E b \in undo_batches :
                       /\ b.id = call'.batch_id
                       /\ ~b.undone
                       /\ \A c \in undo_batches : ~c.undone => c.timestamp <= b.timestamp
                 /\ \E r \in {undo(fs, undo_batches, undo_operations, call'.batch_id)} :
                       /\ fs' = r.fs
                       /\ undo_batches' = r.undo_batches
                       /\ call'.result = r.result
                 /\ \E b \in undo_batches' : b.id = call'.batch_id /\ b.undone
                 /\ undo_operations' = undo_operations
            ELSE /\ call'.batch_id = ""
                 /\ call'.result.success_count = 0
                 /\ call'.result.failed_count = 0
                 /\ call'.result.failed_items # <<>>
                 /\ UNCHANGED <<fs, undo_batches, undo_operations>>]_vars

\* undo_latest has undone the older of two batches, the newer one being marked
\* undone already, and has moved its file back
C19_Witness ==
    /\ call.op = "undo_latest"
    /\ call.row = "active"
    /\ call.result.success_count = 1
    /\ \E b \in undo_batches, c \in undo_batches :
          /\ b.id = call.batch_id
          /\ c.id # b.id /\ c.undone /\ c.timestamp > b.timestamp

\* C20: record with an empty operation list returns an empty id and leaves the
\* ledger unchanged; record with a non-empty list adds exactly one batch, not
\* marked undone, whose operations are the given ones in the given order, under
\* the returned id, which is the id of no batch the ledger held before, and
\* leaves every other batch and its operations unchanged.
C20_RecordAddsOneBatch ==
    call.op = "record"
        => /\ call.raised = ""
           /\ IF call.operations = <<>>
              THEN /\ call.result = ""
                   /\ undo_batches = hist.batches
                   /\ undo_operations = hist.rows
              ELSE \E b \in undo_batches :
                      /\ b.id = call.result
                      /\ b.id \notin {x.id : x \in hist.batches}
                      /\ ~b.undone
                      /\ undo_batches = hist.batches \cup {b}
                      /\ LedgerOperations(undo_operations, b.id)
                           = [k \in 1..Len(call.operations) |->
                                 <<call.operations[k].original_path,
                                   call.operations[k].new_path>>]
                      /\ SelectSeq(undo_operations, LAMBDA r : r.batch_id # b.id)
                           = hist.rows

\* The smaller of two numbers
Min(a, b) == IF a < b THEN a ELSE b

C22_ClearKeepsMostRecent ==
    [][call'.op = "clear_history"
         => /\ undo_batches' \subseteq undo_batches
            /\ Cardinality(undo_batches')
                 = Min(call'.keep_recent, Cardinality(undo_batches))
            /\ \A b \in undo_batches', c \in undo_batches \ undo_batches' :
                  b.timestamp >= c.timestamp
            /\ undo_operations'
                 = SelectSeq(undo_operations,
                             LAMBDA r : r.batch_id \in {b.id : b \in undo_batches'})
            /\ \A b \in undo_batches' :
                  OperationsOf(undo_operations', b.id) = OperationsOf(undo_operations, b.id)
            /\ call'.keep_recent = 0 => undo_batches' = {} /\ undo_operations' = <<>>
            /\ fs' = fs]_vars

\* clear_history(1) has deleted the older of two batches and kept the newer one
\* with its operation
C22_Witness ==
    /\ call.op = "clear_history"
    /\ call.keep_recent = 1
    /\ call.result = 1
    /\ Cardinality(undo_batches) = 1
    /\ \E b \in undo_batches : b.timestamp > 0 /\ Len(OperationsOf(undo_operations, b.id)) = 1
    /\ Len(undo_operations) = 1

\* C23: every batch of the committed ledger has all the operation rows of the
\* operations that were handed to the record call which inserted it: a batch is
\* never committed with only part of its rows, whatever ledger call follows a
\* record that failed part-way.
C23_NoPartialBatchCommitted ==
    \A b \in committed.undo_batches :
        Cardinality(RowsOfBatch(committed.undo_operations, b.id)) = hist.given[b.id]

\* C24: in the list validate returns there is a TARGET_EXISTS conflict for a ready
\* node (its source path, its target path resolved with the sanitized name) if and
\* only if that target path exists on the filesystem and is not the node's source
\* path; and every TARGET_EXISTS conflict of the list is the one of a ready node.
C24_TargetExistsIff ==
    Returned("validate") =>
        \E conflicts \in {call.result.conflicts} :
            /\ \A p \in ReadyPositions(tree) :
                  HasConflict(conflicts, "TARGET_EXISTS", SrcPathOf(tree, p),
                              ResolvedTgtOf(tree, p))
                  <=> /\ Exists(fs, ResolvedTgtOf(tree, p))
                      /\ ResolvedTgtOf(tree, p) # SrcPathOf(tree, p)
            /\ \A i \in 1..Len(conflicts) :
                  conflicts[i].type = "TARGET_EXISTS"
                  => \E p \in ReadyPositions(tree) :
                        /\ conflicts[i].src_path = SrcPathOf(tree, p)
                        /\ conflicts[i].tgt_path = ResolvedTgtOf(tree, p)

\* validate has returned for t(full-width <) -> t<, whose sanitized target is the
\* existing file itself, and a -> b, whose target exists: one conflict, for a
C24_Witness ==
    /\ Returned("validate")
    /\ tree = ScenarioOwnNameTree
    /\ Exists(fs, Base \o <<nTFw>>)
    /\ ResolvedTgtOf(tree, <<1>>) = Base \o <<nTFw>>
    /\ HasConflict(call.result.conflicts, "TARGET_EXISTS", Base \o <<nA>>, Base \o <<nB>>)
    /\ Len(call.result.conflicts) = 1

\* The DUPLICATE_TARGET conflicts of a list with the given source and target path
DuplicateConflicts(conflicts, src_path, tgt_path) ==
    {i \in 1..Len(conflicts) :
        /\ conflicts[i].type = "DUPLICATE_TARGET"
        /\ conflicts[i].src_path = src_path
        /\ conflicts[i].tgt_path = tgt_path}

\* C25: the list validate returns holds DUPLICATE_TARGET conflicts exactly for the
\* resolved target paths of more than one ready node: for such a path one conflict
\* for every node that resolves to it, with that node's source path, whether or
\* not the path exists on the filesystem; and no DUPLICATE_TARGET conflict for
\* any other path, in particular none for nodes that share only the bare target
\* name.
C25_DuplicateTargetExactly ==
    Returned("validate") =>
        \E conflicts \in {call.result.conflicts} :
            /\ \A p \in ReadyPositions(tree) :
                  \E T \in {ResolvedTgtOf(tree, p)} :
                     Cardinality(DuplicateConflicts(conflicts, SrcPathOf(tree, p), T))
                       = IF T \in DupTargets(tree)
                         THEN Cardinality({q \in Contributors(tree, T) :
                                             SrcPathOf(tree, q) = SrcPathOf(tree, p)})
                         ELSE 0
            /\ \A i \in 1..Len(conflicts) :
                  conflicts[i].type = "DUPLICATE_TARGET"
                  => /\ conflicts[i].tgt_path \in DupTargets(tree)
                     /\ \E p \in Contributors(tree, conflicts[i].tgt_path) :
                           conflicts[i].src_path = SrcPathOf(tree, p)

\* validate has returned for a -> t and b -> t with t existing: both nodes have a
\* TARGET_EXISTS and a DUPLICATE_TARGET conflict
C25_Witness ==
    /\ Returned("validate")
    /\ tree = <<FileNode(nA, nT), FileNode(nB, nT)>>
    /\ Exists(fs, Base \o <<nT>>)
    /\ \A src \in {nA, nB} :
          /\ HasConflict(call.result.conflicts, "TARGET_EXISTS", Base \o <<src>>,
                         Base \o <<nT>>)
          /\ HasConflict(call.result.conflicts, "DUPLICATE_TARGET", Base \o <<src>>,
                         Base \o <<nT>>)
    /\ Len(call.result.conflicts) = 4

\* C26: a ready node for which the conflict list returned by get_valid_operations
\* holds a conflict (with the node's source path and its target path, as written
\* or as sanitized) has no operation in the returned operation list.
C26_ConflictingNodeHasNoOperation ==
    Returned("get_valid_operations") =>
        \E conflicts \in {call.result.conflicts} :
            \A p \in ReadyPositions(tree) :
                (\E i \in 1..Len(conflicts) :
                    /\ conflicts[i].src_path = SrcPathOf(tree, p)
                    /\ conflicts[i].tgt_path \in {ResolvedTgtOf(tree, p), OpOf(tree, p)[2]})
                => OpOf(tree, p) \notin Range(call.result.operations)

\* The ready nodes below a directory node that is not ready (pending or no-op)
BelowUnready(t) ==
    {q \in ReadyPositions(t) :
        \E p \in PositionsOf(t) :
            /\ NodeAt(t, p).kind = "dir"
            /\ ~is_ready(NodeAt(t, p))
            /\ StrictlyBelow(q, p)}

\* C27: every operation get_valid_operations returns and every conflict validate
\* returns is the one of a ready node, so a pending node and a no-op node
\* contribute neither; and the ready nodes below a directory node that is not
\* ready are still validated (a child whose target exists has its TARGET_EXISTS
\* conflict) and collected (a child without a conflict, and the only node with
\* its target path, has its operation).
C27_OnlyReadyNodesProduceOutput ==
    /\ Returned("get_valid_operations") =>
          /\ \A i \in 1..Len(call.result.operations) :
                \E p \in ReadyPositions(tree) : call.result.operations[i] = OpOf(tree, p)
          /\ \A q \in BelowUnready(tree) :
                (/\ \A i \in 1..Len(call.result.conflicts) :
                       call.result.conflicts[i].src_path # SrcPathOf(tree, q)
                 /\ \A r \in ReadyPositions(tree) \ {q} : OpOf(tree, r)[2] # OpOf(tree, q)[2])
                => OpOf(tree, q) \in Range(call.result.operations)
    /\ Returned("validate") =>
          /\ \A i \in 1..Len(call.result.conflicts) :
                \E p \in ReadyPositions(tree) :
                   /\ call.result.conflicts[i].src_path = SrcPathOf(tree, p)
                   /\ call.result.conflicts[i].tgt_path = ResolvedTgtOf(tree, p)
          /\ \A q \in BelowUnready(tree) :
                (Exists(fs, ResolvedTgtOf(tree, q)) /\ ResolvedTgtOf(tree, q) # SrcPathOf(tree, q))
                => HasConflict(call.result.conflicts, "TARGET_EXISTS", SrcPathOf(tree, q),
                               ResolvedTgtOf(tree, q))

\* get_valid_operations has returned for the directory d -> d over b -> a and
\* a -> t: the conflict of b -> a and the operation of a -> t, nothing for d
C27_Witness ==
    /\ Returned("get_valid_operations")
    /\ tree = ScenarioNoOpDirTree
    /\ call.result.operations = << <<Base \o <<nD, nA>>, Base \o <<nD, nT>>>> >>
    /\ Len(call.result.conflicts) = 1
    /\ HasConflict(call.result.conflicts, "TARGET_EXISTS", Base \o <<nD, nB>>,
                   Base \o <<nD, nA>>)

RECURSIVE UndoFsBefore(_, _, _)
UndoFsBefore(f, rows, i) ==
    IF i = 1 THEN f
    ELSE Let(UndoFsBefore(f, rows, i - 1),
             LAMBDA g : IF Exists(g, PathOfStr(rows[i - 1].new_path))
                        THEN Move(g, PathOfStr(rows[i - 1].new_path),
                                  PathOfStr(rows[i - 1].original_path)).fs
                        ELSE g)

NewPathExistsAt(f, rows, i) == Exists(UndoFsBefore(f, rows, i), PathOfStr(rows[i].new_path))

\* The i-th operation is moved back: its new path exists and shutil.move succeeds
MovedBackAt(f, rows, i) ==
    \E g \in {UndoFsBefore(f, rows, i)} :
        /\ Exists(g, PathOfStr(rows[i].new_path))
        /\ Move(g, PathOfStr(rows[i].new_path), PathOfStr(rows[i].original_path)).ok

PathPairs(rows) ==
    [k \in 1..Len(rows) |-> <<PathOfStr(rows[k].original_path), PathOfStr(rows[k].new_path)>>]

C30_CountsAddUp ==
    (call.op = "rename_batch" /\ call.raised = "") =>
        \E v \in {get_valid_operations(hist.before, tree, Base, TRUE)} :
            /\ call.result.skipped_count = Len(v.conflicts)
            /\ call.result.conflicts = v.conflicts
            /\ IF call.dry_run
               THEN /\ call.result.success_count = Len(v.operations)
                    /\ call.result.failed_count = 0
               ELSE /\ call.result.success_count + call.result.failed_count
                        = Len(v.operations)
                    /\ call.result.success_count >= 0
                    /\ call.result.failed_count >= 0
                    /\ fs = FsBeforeOp(hist.before, v.operations, Len(v.operations) + 1)

\* A rename_batch that was not a dry run has returned with one operation carried
\* out and one failed
C30_Witness ==
    /\ call.op = "rename_batch"
    /\ call.raised = ""
    /\ ~call.dry_run
    /\ call.result.success_count = 1
    /\ call.result.failed_count = 1
    /\ Len(BatchOperations) = 2

\* C31: clear_history returns the number of batches it deleted, for every
\* keep_recent >= 0 and every ledger, the empty one included.
C31_ReturnsBatchesDeleted ==
    [][call'.op = "clear_history"
         => call'.result = Cardinality(undo_batches) - Cardinality(undo_batches')]_vars

\* C32: after rename_batch calls (not dry runs, one ledger, nothing else touching
\* the directory) that all returned without a failed operation, the k-th
\* undo_latest undoes the k-th last batch recorded; once undo_latest has been
\* called as often as batches were recorded, the filesystem is the one before the
\* first rename_batch; and one more undo_latest undoes nothing and says so.
C32_UndoLatestUnwindsSession ==
    hist.successful =>
        \E n \in {Len(hist.recorded)} :
            /\ \A k \in 1..Len(hist.undone) :
                  k <= n => hist.undone[k] = hist.recorded[n + 1 - k]
            /\ (hist.renames > 0 /\ Len(hist.undone) >= n /\ call.op = "undo_latest")
                  => fs = hist.before
            /\ Len(hist.undone) = n + 1
                  => /\ hist.undone[n + 1] = ""
                     /\ call.result.success_count = 0
                     /\ call.result.failed_items # <<>>

\* C33: an undo that replays a batch leaves every entry in place that does not
\* lie at or below a new path of the batch, and an operation whose original path
\* is occupied when it is due changes nothing and is listed in failed_items.
C33_UndoSparesOccupiedPaths ==
    [][(call'.op \in {"undo", "undo_latest"} /\ call'.row = "active")
         => \E rows \in {DescendingSeq(undo_operations, call'.batch_id)} :
              /\ \A p \in DOMAIN fs :
                    (\A i \in 1..Len(rows) : ~IsPrefix(PathOfStr(rows[i].new_path), p))
                    => p \in DOMAIN fs' /\ fs'[p] = fs[p]
              /\ \A i \in 1..Len(rows) :
                    Exists(UndoFsBefore(fs, rows, i), PathOfStr(rows[i].original_path))
                    => /\ UndoFsBefore(fs, rows, i + 1) = UndoFsBefore(fs, rows, i)
                       /\ \E k \in 1..Len(call'.result.failed_items) :
                             /\ call'.result.failed_items[k][1]
                                  = PathOfStr(rows[i].original_path)
                             /\ call'.result.failed_items[k][2]
                                  = PathOfStr(rows[i].new_path)]_vars

\* C34: every operation get_valid_operations returns pairs the source path of a
\* ready node with the target path validate resolved for it from the sanitized
\* name, and the last name of that target path holds no illegal character.
C34_OperationsUseSanitizedTarget ==
    Returned("get_valid_operations") =>
        \A k \in 1..Len(call.result.operations) :
            \E op \in {call.result.operations[k]} :
                /\ \E p \in ReadyPositions(tree) :
                      /\ op[1] = SrcPathOf(tree, p)
                      /\ op[2] = ResolvedTgtOf(tree, p)
                /\ \A j \in 1..Len(op[2][Len(op[2])]) :
                      op[2][Len(op[2])][j] \notin ILLEGAL_CHARS

\* C35: in every state of the ledger, each operation row carries the id of a
\* batch row of the ledger, and the seq_order values of the n rows of one batch
\* are exactly 0..n-1, each once.
C35_RowsBelongAndAreNumbered ==
    /\ \A i \in 1..Len(undo_operations) :
          \E b \in undo_batches : b.id = undo_operations[i].batch_id
    /\ \A b \in undo_batches :
          \E own \in {SelectSeq(undo_operations, LAMBDA r : r.batch_id = b.id)} :
              /\ {own[i].seq_order : i \in 1..Len(own)} = 0..(Len(own) - 1)
              /\ \A i, j \in 1..Len(own) : own[i].seq_order = own[j].seq_order => i = j

\* A clear_history that deleted a batch and kept one of two operations, after a
\* record call on this ledger.
C35_Witness ==
    /\ call.op = "clear_history"
    /\ call.result > 0
    /\ hist.recorded > 0
    /\ \E b \in undo_batches :
          Len(SelectSeq(undo_operations, LAMBDA r : r.batch_id = b.id)) = 2

\* C36: when validate reports no conflict for the tree on the filesystem and no
\* two ready nodes resolve to the same target path, get_valid_operations
\* returns the operation list of FileRenamer.collect_operations, in the same
\* order.
C36_CollectorsAgree ==
    (/\ Returned("get_valid_operations")
     /\ validate(fs, tree, Base).conflicts = <<>>
     /\ \A p, q \in ReadyPositions(tree) :
           ResolvedTgtOf(tree, p) = ResolvedTgtOf(tree, q) => p = q)
    => call.result.operations = renamer_collect_operations(tree, Base)

====
